---- MODULE Spec2Model ----
(***************************************************************************)
(* Task queue and installer of claude-config-installer:                    *)
(*   src/src/scripts/parallel_executor.py  (EnhancedConflictAnalyzer,      *)
(*       DependencyGraph, ParallelScheduler)                               *)
(*   src/src/scripts/queue_manager.py      (ConflictAnalyzer,              *)
(*       DependencyResolver, QueueManager)                                 *)
(*   src/src/scripts/session_context.py    (SessionContext,                *)
(*       SessionContextManager, ContextMatcher)                            *)
(*   src/src/scripts/auto_queue_hook.py    (AutoQueueHook)                 *)
(*   src/src/scripts/task_analyzer.py      (TaskAnalyzer)                  *)
(*   src/src/scripts/auto_continue.py      (AutoContinueManager and the    *)
(*       Stop and UserPromptSubmit hooks)                                  *)
(*   src/install.py, src/src/version.py    (Installer)                     *)
(*                                                                         *)
(* The analysis functions are pure.  Each family is exercised by a         *)
(* specification of its own whose initial states draw the arguments from   *)
(* bounded sets and whose actions apply the functions:                     *)
(*   SpecConflict  - the two conflict analyzers on a pair of tasks         *)
(*   SpecSched     - ParallelScheduler on a task list                      *)
(*   SpecResolver  - DependencyResolver on a task list                     *)
(*   SpecMatch     - ContextMatcher.match_score on a task and a context    *)
(*   SpecScope     - ConflictAnalyzer.extract_scope on a command           *)
(*   SpecAnalyzer  - TaskAnalyzer.create_parallel_groups on a list of      *)
(*                   task descriptions                                     *)
(*                                                                         *)
(* QueueManager keeps its tasks in files.  Its operations are actions on   *)
(* the files:                                                              *)
(*   Spec          - one QueueManager, one operation at a time             *)
(*   SpecFiles     - the readers of the files, on files that may not hold  *)
(*                   JSON (with session_context.py, auto_continue.py)      *)
(*   SpecRace      - two invocations of add with their steps interleaved   *)
(*   SpecHook      - the tool hook that tracks files and the session       *)
(*                   start hook that matches the queue against them        *)
(*   SpecInstall   - install, merge_settings and uninstall on ~/.claude    *)
(*   SpecWorker    - the worker loop get_next, start, complete, under      *)
(*                   fairness                                              *)
(*   SpecAddOnly   - a store that tasks enter through add only             *)
(*   SpecPriority  - add, add_with_resolution and move with priority       *)
(*                   strings of any kind                                   *)
(*   SpecFlag      - the continuation flag between the Stop hook and the   *)
(*                   prompt hook, with time passing                        *)
(*   SpecStop      - the Stop hook beside the operations of the store      *)
(***************************************************************************)
EXTENDS Integers, Sequences, FiniteSets, TLC

VARIABLES
    tasks,      \* the task list handed to the operation (a sequence of Task)
    op,         \* the operation that has been applied ("init" before any)
    level,      \* result of analyze_conflict_level
    conflicts,  \* result of detect_conflicts
    order,      \* iteration order drawn for DependencyGraph.nodes (a set)
    groups,     \* result of create_parallel_groups
    sorted,     \* result of DependencyResolver.topological_sort
    next_task,  \* result of DependencyResolver.get_next_executable
    independent, \* result of DependencyResolver.get_independent_tasks
    input,      \* the arguments of the last call of the other pure functions
    output,     \* what that call returned or raised
    tasks_file, \* ~/.claude/queue/tasks.json
    history_file, \* ~/.claude/queue/history.json
    context_file, \* ~/.claude/queue/session_context.json
    flag_file,  \* ~/.claude/queue/.auto_continue
    last_result, \* what the last operation on the files returned or raised
    clock,      \* the number of tasks created so far (uuid and datetime.now)
    procs,      \* the add invocations in progress, each with its loaded list
    claude_dir  \* ~/.claude as the installer sees it: the managed files,
                \* settings.json, the version file and the backups

\* the variables of the analysis functions and those of the files
analysis_vars ==
    <<tasks, op, level, conflicts, order, groups, sorted, next_task, independent,
      input, output>>

store_vars ==
    <<tasks_file, history_file, context_file, flag_file, last_result, clock,
      procs, claude_dir>>

vars == <<analysis_vars, store_vars>>

(***************************************************************************)
(* Bounds of the model                                                     *)
(***************************************************************************)
\* largest number of entries in one list of a scope (files, directories, ...)
MaxScopeSet == 1
\* largest number of tasks in a task list
MaxTasks == 3

(***************************************************************************)
(* Data                                                                    *)
(***************************************************************************)
\* Task.id values present in a list, and an id that no task of a list carries
TaskIds == <<"t1", "t2", "t3", "t4">>
AbsentId == "gone"

\* queue_manager.py Priority: name -> value
Priority == [critical |-> 0, high |-> 1, normal |-> 2, low |-> 3]

\* str.upper on the priority strings a caller gives: the four names, a name
\* in mixed case and two words that name no priority
upper(s) ==
    CASE s = "critical" -> "CRITICAL"
      [] s = "high" -> "HIGH"
      [] s = "High" -> "HIGH"
      [] s = "normal" -> "NORMAL"
      [] s = "low" -> "LOW"
      [] s = "urgent" -> "URGENT"
      [] s = "soon" -> "SOON"

\* the members of the enum Priority, by the name Priority[...] looks up
PriorityMember ==
    [CRITICAL |-> "critical", HIGH |-> "high", NORMAL |-> "normal", LOW |-> "low"]

\* Priority[priority.upper()] raises KeyError for a name that is no member
priority_lookup_raises(priority) == upper(priority) \notin DOMAIN PriorityMember

\* Priority[priority.upper()].value
priority_value(priority) == Priority[PriorityMember[upper(priority)]]

\* queue_manager.py TaskStatus values
QUEUED == "queued"
RUNNING == "running"
COMPLETED == "completed"
FAILED == "failed"
CANCELLED == "cancelled"

\* parallel_executor.py ConflictLevel
NONE == 0
SOFT == 1
HARD == 2

\* Paths are character sequences, so that str.startswith is a real prefix test
DirSrc == <<"s", "r", "c", "/">>
DirSrcAuth == <<"s", "r", "c", "/", "a", "u", "t", "h", "/">>
DirLib == <<"l", "i", "b", "/">>
Files == {"auth.ts", "user.ts"}
Directories == {DirSrc, DirSrcAuth, DirLib}
Modules == {"profile"}
Symbols == {"login"}

UpTo(S, n) == {x \in SUBSET S : Cardinality(x) <= n}

\* Task.scope is a dict.  io_keys tells whether the dict carries the keys
\* "imports" and "exports" of parallel_executor.ScopeInfo, which
\* queue_manager.ScopeInfo does not have.
Scopes ==
    {[files |-> f, directories |-> d, modules |-> m,
      imports |-> i, exports |-> e, io_keys |-> k] :
        f \in UpTo(Files, MaxScopeSet), d \in UpTo(Directories, MaxScopeSet),
        m \in UpTo(Modules, MaxScopeSet), i \in UpTo(Symbols, MaxScopeSet),
        e \in UpTo(Symbols, MaxScopeSet), k \in BOOLEAN}

ScopeDicts == {s \in Scopes : ~s.io_keys => (s.imports = {} /\ s.exports = {})}

EmptyScope ==
    [files |-> {}, directories |-> {}, modules |-> {},
     imports |-> {}, exports |-> {}, io_keys |-> FALSE]

\* queue_manager.py Task, with the fields the analysis reads
Task(id, status, priority, created_at, depends_on, scope) ==
    [id |-> id, status |-> status, priority |-> priority,
     created_at |-> created_at, depends_on |-> depends_on, scope |-> scope]

(***************************************************************************)
(* parallel_executor.py: EnhancedConflictAnalyzer                          *)
(***************************************************************************)
_has_file_overlap(scope_a, scope_b) ==
    scope_a.files \cap scope_b.files # {}

\* a plausible slip: a subset test in place of the intersection test
_has_directory_overlap_subset(scope_a, scope_b) ==
    scope_a.directories \subseteq scope_b.directories

_has_directory_overlap(scope_a, scope_b) ==
    scope_a.directories \cap scope_b.directories # {}

_has_import_relationship(scope_a, scope_b) ==
    \/ scope_a.exports \cap scope_b.imports # {}
    \/ scope_b.exports \cap scope_a.imports # {}

\* a plausible slip: the directory test placed before the file test
analyze_conflict_level_dirs_first(task_a, task_b) ==
    IF task_a.id \in task_b.depends_on THEN HARD
    ELSE IF task_b.id \in task_a.depends_on THEN HARD
    ELSE IF _has_directory_overlap(task_a.scope, task_b.scope) THEN SOFT
    ELSE IF _has_file_overlap(task_a.scope, task_b.scope) THEN HARD
    ELSE IF _has_import_relationship(task_a.scope, task_b.scope) THEN SOFT
    ELSE NONE

analyze_conflict_level(task_a, task_b) ==
    IF task_a.id \in task_b.depends_on THEN HARD
    ELSE IF task_b.id \in task_a.depends_on THEN HARD
    ELSE IF _has_file_overlap(task_a.scope, task_b.scope) THEN HARD
    ELSE IF _has_directory_overlap(task_a.scope, task_b.scope) THEN SOFT
    ELSE IF _has_import_relationship(task_a.scope, task_b.scope) THEN SOFT
    ELSE NONE

(***************************************************************************)
(* queue_manager.py: ConflictAnalyzer.detect_conflicts                     *)
(***************************************************************************)
\* str.startswith
startswith(s, prefix) ==
    /\ Len(prefix) <= Len(s)
    /\ SubSeq(s, 1, Len(prefix)) = prefix

\* a plausible slip: the directory test made in one direction only
conflict_reasons_one_way(new_scope, existing_scope) ==
    [files |-> new_scope.files \cap existing_scope.files,
     modules |-> new_scope.modules \cap existing_scope.modules,
     directories |->
        {pair \in new_scope.directories \X existing_scope.directories :
            startswith(pair[1], pair[2])}]

\* the conflict_reasons of one existing task against the new scope
conflict_reasons(new_scope, existing_scope) ==
    [files |-> new_scope.files \cap existing_scope.files,
     modules |-> new_scope.modules \cap existing_scope.modules,
     directories |->
        {pair \in new_scope.directories \X existing_scope.directories :
            startswith(pair[1], pair[2]) \/ startswith(pair[2], pair[1])}]

has_reasons(r) == r.files # {} \/ r.modules # {} \/ r.directories # {}

RECURSIVE detect_loop(_, _, _)
detect_loop(new_scope, existing_tasks, i) ==
    IF i > Len(existing_tasks) THEN [raised |-> "none", value |-> <<>>]
    ELSE
        LET existing == existing_tasks[i]
            rest == detect_loop(new_scope, existing_tasks, i + 1)
        IN  IF existing.status \notin {QUEUED, RUNNING} THEN rest
            ELSE IF existing.scope.io_keys
                 THEN [raised |-> "TypeError", value |-> <<>>]
            ELSE IF rest.raised # "none" THEN rest
            ELSE
                LET r == conflict_reasons(new_scope, existing.scope)
                IN  IF has_reasons(r)
                    THEN [raised |-> "none",
                          value |-> <<[task_id |-> existing.id, reasons |-> r]>>
                                    \o rest.value]
                    ELSE rest

\* a plausible slip: the module overlap left out of the reasons
detect_conflicts_no_modules(new_task, existing_tasks) ==
    IF new_task.scope.io_keys THEN [raised |-> "TypeError", value |-> <<>>]
    ELSE
        LET blind == [new_task.scope EXCEPT !.modules = {}]
        IN  detect_loop(blind, existing_tasks, 1)

\* ScopeInfo(**scope) of queue_manager.py raises TypeError on a key that is
\* not a field of its ScopeInfo
detect_conflicts(new_task, existing_tasks) ==
    IF new_task.scope.io_keys THEN [raised |-> "TypeError", value |-> <<>>]
    ELSE detect_loop(new_task.scope, existing_tasks, 1)

(***************************************************************************)
(* parallel_executor.py: DependencyGraph                                   *)
(*                                                                         *)
(* DependencyGraph.edges is a dict of dicts: edges[from_id] keeps its      *)
(* to_ids in insertion order, and assigning an existing key keeps its      *)
(* place.  DependencyGraph.nodes is a set of strings, whose iteration      *)
(* order is not fixed by the program: it is the permutation node_order.    *)
(***************************************************************************)
AllIds == {TaskIds[i] : i \in 1..Len(TaskIds)} \cup {AbsentId}

DependencyGraph == [nodes |-> {}, edges |-> [n \in AllIds |-> <<>>]]

add_node(graph, node_id) == [graph EXCEPT !.nodes = @ \cup {node_id}]

add_edge(graph, from_id, to_id, edge_type) ==
    LET targets == graph.edges[from_id]
        at == {k \in 1..Len(targets) : targets[k].to = to_id}
    IN  [nodes |-> graph.nodes \cup {from_id, to_id},
         edges |-> [graph.edges EXCEPT ![from_id] =
                        IF at = {}
                        THEN Append(targets, [to |-> to_id, type |-> edge_type])
                        ELSE [k \in 1..Len(targets) |->
                                IF k \in at
                                THEN [to |-> to_id, type |-> edge_type]
                                ELSE targets[k]]]]

get_edge_type(graph, from_id, to_id) ==
    LET targets == graph.edges[from_id]
        at == {k \in 1..Len(targets) : targets[k].to = to_id}
    IN  IF at = {} THEN "None" ELSE targets[CHOOSE k \in at : TRUE].type

get_dependencies(graph, node_id) ==
    {from_id \in AllIds :
        \E k \in 1..Len(graph.edges[from_id]) :
            graph.edges[from_id][k].to = node_id}

\* the elements of the sequence seq that satisfy keep, in order
RECURSIVE Filter(_, _)
Filter(seq, keep) ==
    IF seq = <<>> THEN <<>>
    ELSE (IF Head(seq) \in keep THEN <<Head(seq)>> ELSE <<>>)
         \o Filter(Tail(seq), keep)

\* in_degree after lines 109-115
in_degree_of(graph) ==
    [n \in AllIds |-> Cardinality(get_dependencies(graph, n))]

\* lines 125-128: the dependents of one popped node, in dict order
RECURSIVE release(_, _, _, _)
release(targets, k, in_degree, queue) ==
    IF k > Len(targets) THEN [in_degree |-> in_degree, queue |-> queue]
    ELSE
        LET dependent == targets[k].to
            lowered == [in_degree EXCEPT ![dependent] = @ - 1]
        IN  release(targets, k + 1, lowered,
                    IF lowered[dependent] = 0
                    THEN Append(queue, dependent) ELSE queue)

\* lines 121-128: the while loop
RECURSIVE graph_sort_loop(_, _, _, _)
graph_sort_loop(graph, queue, in_degree, result) ==
    IF queue = <<>> THEN result
    ELSE
        LET node == Head(queue)
            after == release(graph.edges[node], 1, in_degree, Tail(queue))
        IN  graph_sort_loop(graph, after.queue, after.in_degree,
                            Append(result, node))

\* DependencyGraph.topological_sort; node_order lists graph.nodes in the
\* order the set yields them
graph_topological_sort(graph, node_order) ==
    LET in_degree == in_degree_of(graph)
        queue == Filter(node_order, {n \in graph.nodes : in_degree[n] = 0})
    IN  graph_sort_loop(graph, queue, in_degree, <<>>)

(***************************************************************************)
(* parallel_executor.py: ParallelScheduler                                 *)
(***************************************************************************)
\* lines 223-226: one edge per explicit dependency.  The edges of one task
\* start at different nodes, so the order within depends_on does not show
\* in any edges[from_id].
RECURSIVE add_dependency_edges(_, _, _)
add_dependency_edges(graph, task_id, deps) ==
    IF deps = {} THEN graph
    ELSE LET dep_id == CHOOSE d \in deps : TRUE
         IN  add_dependency_edges(add_edge(graph, dep_id, task_id, "dependency"),
                                  task_id, deps \ {dep_id})

RECURSIVE add_explicit(_, _, _)
add_explicit(graph, task_list, i) ==
    IF i > Len(task_list) THEN graph
    ELSE add_explicit(
            add_dependency_edges(graph, task_list[i].id, task_list[i].depends_on),
            task_list, i + 1)

RECURSIVE add_nodes(_, _, _)
add_nodes(graph, task_list, i) ==
    IF i > Len(task_list) THEN graph
    ELSE add_nodes(add_node(graph, task_list[i].id), task_list, i + 1)

\* lines 231-239: the pair (task_a, task_b) of positions i < j
add_implicit(graph, task_list, i, j) ==
    IF analyze_conflict_level(task_list[i], task_list[j]) = HARD
    THEN add_edge(graph, task_list[i].id, task_list[j].id, "hard")
    ELSE graph

\* lines 229-230: the two nested loops, i ascending and j > i ascending
RECURSIVE add_conflicts(_, _, _, _)
add_conflicts(graph, task_list, i, j) ==
    IF i > Len(task_list) THEN graph
    ELSE IF j > Len(task_list) THEN add_conflicts(graph, task_list, i + 1, i + 2)
    ELSE add_conflicts(add_implicit(graph, task_list, i, j), task_list, i, j + 1)

build_dependency_graph(task_list) ==
    add_conflicts(
        add_explicit(add_nodes(DependencyGraph, task_list, 1), task_list, 1),
        task_list, 1, 2)

\* task_map = {t.id: t for t in tasks}
task_ids(task_list) == {task_list[i].id : i \in 1..Len(task_list)}

task_map(task_list, task_id) ==
    task_list[CHOOSE i \in 1..Len(task_list) : task_list[i].id = task_id]

ParallelGroup ==
    [tasks |-> <<>>, can_parallel |-> TRUE, has_soft_conflicts |-> FALSE,
     soft_conflict_pairs |-> <<>>]

\* lines 271-272
hard_deps(graph, task_id) ==
    {d \in get_dependencies(graph, task_id) :
        get_edge_type(graph, d, task_id) \in {"hard", "dependency"}}

\* a plausible slip: the search for available tasks stopped at the first one
available_tasks_first_only(graph, topo_order, scheduled) ==
    LET found == Filter(topo_order,
                    {task_id \in AllIds :
                        task_id \notin scheduled
                            /\ hard_deps(graph, task_id) \subseteq scheduled})
    IN  IF found = <<>> THEN <<>> ELSE <<Head(found)>>

\* lines 264-275
available_tasks(graph, topo_order, scheduled) ==
    Filter(topo_order,
           {task_id \in AllIds :
                task_id \notin scheduled /\ hard_deps(graph, task_id) \subseteq scheduled})

\* a plausible slip: a SOFT conflict refuses the task like a HARD one
RECURSIVE check_group_soft_blocks(_, _, _, _, _)
check_group_soft_blocks(task_list, existing_ids, m, task_id, group) ==
    IF m > Len(existing_ids) THEN [can_add |-> TRUE, group |-> group]
    ELSE
        LET existing_id == existing_ids[m]
            lvl == analyze_conflict_level(task_map(task_list, existing_id),
                                          task_map(task_list, task_id))
        IN  IF lvl = HARD THEN [can_add |-> FALSE, group |-> group]
            ELSE IF lvl = SOFT
            THEN [can_add |-> FALSE,
                  group |-> [group EXCEPT !.has_soft_conflicts = TRUE,
                                          !.soft_conflict_pairs =
                                                Append(@, <<existing_id, task_id>>)]]
            ELSE check_group_soft_blocks(task_list, existing_ids, m + 1,
                                         task_id, group)

\* lines 287-297: the task against the members of the group, in the order
\* the set group_task_ids yields them
RECURSIVE check_group(_, _, _, _, _)
check_group(task_list, existing_ids, m, task_id, group) ==
    IF m > Len(existing_ids) THEN [can_add |-> TRUE, group |-> group]
    ELSE
        LET existing_id == existing_ids[m]
            lvl == analyze_conflict_level(task_map(task_list, existing_id),
                                          task_map(task_list, task_id))
        IN  IF lvl = HARD THEN [can_add |-> FALSE, group |-> group]
            ELSE IF lvl = SOFT
            THEN check_group(task_list, existing_ids, m + 1, task_id,
                    [group EXCEPT !.has_soft_conflicts = TRUE,
                                  !.soft_conflict_pairs =
                                        Append(@, <<existing_id, task_id>>)])
            ELSE check_group(task_list, existing_ids, m + 1, task_id, group)

\* lines 284-302: one group out of the available tasks.  task_map[task_id]
\* raises KeyError for an id that is a node of the graph but no task.
RECURSIVE fill_group(_, _, _, _, _)
fill_group(task_list, node_order, available, k, group) ==
    IF k > Len(available) THEN [raised |-> "none", group |-> group]
    ELSE
        LET task_id == available[k]
        IN  IF task_id \notin task_ids(task_list)
            THEN [raised |-> "KeyError", group |-> group]
            ELSE
                LET members == {group.tasks[n] : n \in 1..Len(group.tasks)}
                    checked == check_group(task_list, Filter(node_order, members),
                                           1, task_id, group)
                IN  fill_group(task_list, node_order, available, k + 1,
                        IF checked.can_add
                        THEN [checked.group EXCEPT !.tasks = Append(@, task_id)]
                        ELSE checked.group)

\* lines 261-308: the while loop
RECURSIVE schedule_loop(_, _, _, _, _, _)
schedule_loop(task_list, graph, topo_order, node_order, scheduled, plan) ==
    IF Cardinality(scheduled) >= Len(task_list)
    THEN [raised |-> "none", value |-> plan]
    ELSE
        LET available == available_tasks(graph, topo_order, scheduled)
            filled == fill_group(task_list, node_order, available, 1, ParallelGroup)
            members == {filled.group.tasks[n] : n \in 1..Len(filled.group.tasks)}
        IN  IF available = <<>> THEN [raised |-> "none", value |-> plan]
            ELSE IF filled.raised # "none"
            THEN [raised |-> filled.raised, value |-> <<>>]
            ELSE schedule_loop(task_list, graph, topo_order, node_order,
                    scheduled \cup members,
                    IF filled.group.tasks # <<>>
                    THEN Append(plan, [filled.group EXCEPT
                                    !.can_parallel = Len(filled.group.tasks) > 1])
                    ELSE plan)

\* a plausible slip: a graph with a cycle answered with an empty plan
create_parallel_groups_cycle_empty(task_list, node_order) ==
    IF task_list = <<>> THEN [raised |-> "none", value |-> <<>>]
    ELSE
        LET graph == build_dependency_graph(task_list)
            topo_order == graph_topological_sort(graph, node_order)
        IN  IF Len(topo_order) < Cardinality(graph.nodes)
            THEN [raised |-> "none", value |-> <<>>]
            ELSE schedule_loop(task_list, graph, topo_order, node_order, {}, <<>>)

\* ParallelScheduler.create_parallel_groups
create_parallel_groups(task_list, node_order) ==
    IF task_list = <<>> THEN [raised |-> "none", value |-> <<>>]
    ELSE
        LET graph == build_dependency_graph(task_list)
        IN  schedule_loop(task_list, graph,
                          graph_topological_sort(graph, node_order),
                          node_order, {}, <<>>)

\* max((len(g.tasks) for g in groups), default=0)
max_group_size(group_list) ==
    IF group_list = <<>> THEN 0
    ELSE CHOOSE n \in {Len(group_list[i].tasks) : i \in 1..Len(group_list)} :
            \A i \in 1..Len(group_list) : Len(group_list[i].tasks) <= n

\* ParallelScheduler.sessions_needed(groups)
sessions_needed(group_list) == max_group_size(group_list)

\* the float (sequential - parallel) / sequential * 100 as the fraction
\* num / den, and 0 for an empty task list
time_savings(sequential_time, parallel_time) ==
    IF sequential_time > 0
    THEN [num |-> (sequential_time - parallel_time) * 100, den |-> sequential_time]
    ELSE [num |-> 0, den |-> 1]

\* the ExecutionPlan of a list of groups
execution_plan(task_count, group_list) ==
    [raised |-> "none",
     groups |-> group_list,
     total_groups |-> Len(group_list),
     estimated_parallelism |-> max_group_size(group_list),
     sequential_time |-> task_count,
     parallel_time |-> Len(group_list),
     time_savings_percent |-> time_savings(task_count, Len(group_list)),
     sessions_needed |-> sessions_needed(group_list)]

\* a plausible slip: the sequential time counted over the tasks that were
\* scheduled instead of the tasks that were given
generate_execution_plan_scheduled(task_list, node_order) ==
    LET made == create_parallel_groups(task_list, node_order)
    IN  IF made.raised # "none" THEN [raised |-> made.raised]
        ELSE execution_plan(
                Len(SelectSeq(task_list,
                        LAMBDA t : \E i \in 1..Len(made.value) :
                            \E k \in 1..Len(made.value[i].tasks) :
                                made.value[i].tasks[k] = t.id)),
                made.value)

\* ParallelScheduler.generate_execution_plan, with sessions_needed of its
\* groups as QueueManager.get_parallel_plan reports it
generate_execution_plan(task_list, node_order) ==
    LET made == create_parallel_groups(task_list, node_order)
    IN  IF made.raised # "none" THEN [raised |-> made.raised]
        ELSE execution_plan(Len(task_list), made.value)

(***************************************************************************)
(* queue_manager.py: DependencyResolver                                    *)
(***************************************************************************)
\* a plausible slip: the priority left out of the sort key
sort_key_le_created_at(x, y) == x.created_at <= y.created_at

\* the sort key of line 318-321: (Priority[...].value, created_at)
sort_key_le(x, y) ==
    \/ priority_value(x.priority) < priority_value(y.priority)
    \/ priority_value(x.priority) = priority_value(y.priority)
            /\ x.created_at <= y.created_at

\* list.sort is stable: an element goes after the elements whose key is not
\* greater than its own
RECURSIVE insert_sorted(_, _, _)
insert_sorted(task_list, queue, tid) ==
    IF queue = <<>> THEN <<tid>>
    ELSE IF sort_key_le(task_map(task_list, Head(queue)), task_map(task_list, tid))
         THEN <<Head(queue)>> \o insert_sorted(task_list, Tail(queue), tid)
         ELSE <<tid>> \o queue

RECURSIVE queue_sort(_, _)
queue_sort(task_list, queue) ==
    IF queue = <<>> THEN <<>>
    ELSE insert_sorted(task_list,
                       queue_sort(task_list, SubSeq(queue, 1, Len(queue) - 1)),
                       queue[Len(queue)])

\* the ids of a task list, in list order
RECURSIVE id_list(_)
id_list(task_list) ==
    IF task_list = <<>> THEN <<>>
    ELSE <<Head(task_list).id>> \o id_list(Tail(task_list))

\* lines 302-310: graph[dep_id] lists the dependents of dep_id in list order;
\* a dep_id that is no task of the list is skipped
neighbors(task_list, dep_id) ==
    Filter(id_list(task_list),
           {tid \in task_ids(task_list) : dep_id \in task_map(task_list, tid).depends_on})

\* a plausible slip: line 308 left out, every dep_id counted
initial_in_degree_all(task_list) ==
    [tid \in task_ids(task_list) |->
        Cardinality(task_map(task_list, tid).depends_on)]

initial_in_degree(task_list) ==
    [tid \in task_ids(task_list) |->
        Cardinality(task_map(task_list, tid).depends_on \cap task_ids(task_list))]

\* lines 326-329
RECURSIVE visit_neighbors(_, _, _, _)
visit_neighbors(nbrs, k, in_degree, queue) ==
    IF k > Len(nbrs) THEN [in_degree |-> in_degree, queue |-> queue]
    ELSE
        LET lowered == [in_degree EXCEPT ![nbrs[k]] = @ - 1]
        IN  visit_neighbors(nbrs, k + 1, lowered,
                            IF lowered[nbrs[k]] = 0
                            THEN Append(queue, nbrs[k]) ELSE queue)

\* lines 316-329: the while loop
RECURSIVE kahn_loop(_, _, _, _)
kahn_loop(task_list, queue, in_degree, result) ==
    IF queue = <<>> THEN result
    ELSE
        LET ordered == queue_sort(task_list, queue)
            current == Head(ordered)
            after == visit_neighbors(neighbors(task_list, current), 1,
                                     in_degree, Tail(ordered))
        IN  kahn_loop(task_list, after.queue, after.in_degree,
                      Append(result, current))

\* a plausible slip: the partial order returned, the length test left out
check_cycles_skipped(task_list, result) ==
    [raised |-> "none", value |-> result]

\* lines 331-335
check_cycles(task_list, result) ==
    IF Len(result) # Len(task_list)
    THEN [raised |-> "ValueError", value |-> <<>>]
    ELSE [raised |-> "none", value |-> result]

\* the tasks that enter the queue of the while loop: those whose
\* dependencies in the list have all been emitted before
RECURSIVE queued_ids(_, _, _)
queued_ids(task_list, entered, rounds) ==
    IF rounds = 0 THEN entered
    ELSE queued_ids(task_list,
            {tid \in task_ids(task_list) :
                (task_map(task_list, tid).depends_on \cap task_ids(task_list))
                    \subseteq entered},
            rounds - 1)

\* DependencyResolver.topological_sort; the value is the list of ids of the
\* sorted tasks.  queue.sort computes the key of every task in the queue
\* (lines 318-321), of a single one too: the call raises KeyError as soon
\* as a task whose priority names no member of Priority enters the queue,
\* before the test for cycles.
topological_sort(task_list) ==
    IF task_list = <<>> THEN [raised |-> "none", value |-> <<>>]
    ELSE IF \E tid \in queued_ids(task_list, {}, Len(task_list)) :
                priority_lookup_raises(task_map(task_list, tid).priority)
    THEN [raised |-> "KeyError", value |-> <<>>]
    ELSE
        LET in_degree == initial_in_degree(task_list)
            queue == Filter(id_list(task_list),
                            {tid \in task_ids(task_list) : in_degree[tid] = 0})
        IN  check_cycles(task_list, kahn_loop(task_list, queue, in_degree, <<>>))

\* [t for t in tasks if t.status == status]
RECURSIVE with_status(_, _)
with_status(task_list, status) ==
    IF task_list = <<>> THEN <<>>
    ELSE (IF Head(task_list).status = status THEN <<Head(task_list)>> ELSE <<>>)
         \o with_status(Tail(task_list), status)

\* lines 342-347: the first task of the order whose dependencies are all
\* in completed_ids
RECURSIVE first_executable(_, _, _, _)
first_executable(task_list, ordered, k, completed_ids) ==
    IF k > Len(ordered) THEN [raised |-> "none", found |-> FALSE, id |-> ""]
    ELSE IF task_map(task_list, ordered[k]).depends_on \subseteq completed_ids
         THEN [raised |-> "none", found |-> TRUE, id |-> ordered[k]]
         ELSE first_executable(task_list, ordered, k + 1, completed_ids)

\* a plausible slip: a running dependency counted as completed
get_next_executable_running_done(task_list) ==
    LET completed_ids == task_ids(with_status(task_list, COMPLETED))
                         \cup task_ids(with_status(task_list, RUNNING))
        ordered == topological_sort(with_status(task_list, QUEUED))
    IN  IF ordered.raised # "none"
        THEN [raised |-> ordered.raised, found |-> FALSE, id |-> ""]
        ELSE first_executable(task_list, ordered.value, 1, completed_ids)

\* DependencyResolver.get_next_executable
get_next_executable(task_list) ==
    LET completed_ids == task_ids(with_status(task_list, COMPLETED))
        ordered == topological_sort(with_status(task_list, QUEUED))
    IN  IF ordered.raised # "none"
        THEN [raised |-> ordered.raised, found |-> FALSE, id |-> ""]
        ELSE first_executable(task_list, ordered.value, 1, completed_ids)

\* lines 358-362: one pass of the for loop over the list
RECURSIVE block_pass(_, _, _, _)
block_pass(task_list, i, blocked, changed) ==
    IF i > Len(task_list) THEN [blocked |-> blocked, changed |-> changed]
    ELSE IF /\ task_list[i].id \notin blocked
            /\ task_list[i].depends_on \cap blocked # {}
         THEN block_pass(task_list, i + 1, blocked \cup {task_list[i].id}, TRUE)
         ELSE block_pass(task_list, i + 1, blocked, changed)

\* a plausible slip: one pass over the list, the while loop left out
block_loop_one_pass(task_list, blocked, passes) ==
    [blocked |-> block_pass(task_list, 1, blocked, FALSE).blocked,
     passes |-> passes + 1]

\* lines 354-362: the while loop; passes counts its iterations
RECURSIVE block_loop(_, _, _)
block_loop(task_list, blocked, passes) ==
    LET after == block_pass(task_list, 1, blocked, FALSE)
    IN  IF after.changed
        THEN block_loop(task_list, after.blocked, passes + 1)
        ELSE [blocked |-> after.blocked, passes |-> passes + 1]

\* DependencyResolver.get_independent_tasks; the value is the list of ids of
\* the returned tasks
get_independent_tasks(task_list, failed_task_id) ==
    LET closed == block_loop(task_list, {failed_task_id}, 0)
    IN  [failed_task_id |-> failed_task_id,
         value |-> Filter(id_list(task_list),
                          {tid \in task_ids(task_list) :
                              /\ tid \notin closed.blocked
                              /\ task_map(task_list, tid).status = QUEUED}),
         passes |-> closed.passes]

(***************************************************************************)
(* Results before any operation has been applied                          *)
(***************************************************************************)
NoLevel == [a |-> 0, b |-> 0, value |-> NONE]
NoConflicts == [raised |-> "none", value |-> <<>>]
NoGroups == [raised |-> "none", value |-> <<>>]
NoSorted == [raised |-> "none", value |-> <<>>]
NoNext == [raised |-> "none", found |-> FALSE, id |-> ""]
NoIndependent == [failed_task_id |-> "", value |-> <<>>, passes |-> 0]
NoInput == [op |-> "init"]
NoOutput == [raised |-> "none"]

(***************************************************************************)
(* The files of ~/.claude/queue                                            *)
(***************************************************************************)
\* QueueManager._ensure_files: tasks.json and history.json as first written
EmptyTasksFile == [valid |-> TRUE, tasks |-> <<>>]
EmptyHistoryFile ==
    [valid |-> TRUE, completed |-> <<>>, cancelled |-> <<>>, failed |-> <<>>]

\* a file whose content is not JSON
CorruptTasksFile == [valid |-> FALSE, tasks |-> <<>>]
CorruptHistoryFile ==
    [valid |-> FALSE, completed |-> <<>>, cancelled |-> <<>>, failed |-> <<>>]

\* session_context.json and .auto_continue: absent, not JSON, or written by
\* SessionContextManager.save / AutoContinuationManager.set_continuation
AbsentFile == [state |-> "absent"]
CorruptFile == [state |-> "corrupt"]

NoResult == [op |-> "init", raised |-> "none", error |-> ""]
NoProcs == <<>>
\* ~/.claude before the installer is looked at
NoClaudeDir == [state |-> "unused"]

\* the files before QueueManager has been used
StoreIdle ==
    /\ tasks_file = EmptyTasksFile
    /\ history_file = EmptyHistoryFile
    /\ context_file = AbsentFile
    /\ flag_file = AbsentFile
    /\ last_result = NoResult
    /\ clock = 0
    /\ procs = NoProcs
    /\ claude_dir = NoClaudeDir

\* the analysis variables when only the files are exercised
AnalysisIdle ==
    /\ tasks = <<>>
    /\ op = "init"
    /\ level = NoLevel
    /\ conflicts = NoConflicts
    /\ order = <<>>
    /\ groups = NoGroups
    /\ sorted = NoSorted
    /\ next_task = NoNext
    /\ independent = NoIndependent
    /\ input = NoInput
    /\ output = NoOutput

(***************************************************************************)
(* SpecConflict: the two analyzers applied to a pair of tasks              *)
(***************************************************************************)
\* the dependencies a task of the pair can declare on the other one
PairDeps(other) == {{}, {other}}

InitConflict ==
    /\ \E sa \in ScopeDicts, sb \in ScopeDicts,
          da \in PairDeps(TaskIds[2]), db \in PairDeps(TaskIds[1]),
          stb \in {QUEUED, RUNNING, COMPLETED} :
            tasks = << Task(TaskIds[1], QUEUED, "normal", 1, da, sa),
                       Task(TaskIds[2], stb, "normal", 2, db, sb) >>
    /\ op = "init"
    /\ level = NoLevel
    /\ conflicts = NoConflicts
    /\ order = <<>>
    /\ groups = NoGroups
    /\ sorted = NoSorted
    /\ next_task = NoNext
    /\ independent = NoIndependent
    /\ input = NoInput
    /\ output = NoOutput
    /\ StoreIdle

\* EnhancedConflictAnalyzer.analyze_conflict_level(task_a, task_b), in either
\* argument order
AnalyzeConflictLevel ==
    /\ \E i \in 1..2 :
        LET j == 3 - i
        IN  level' = [a |-> i, b |-> j,
                      value |-> analyze_conflict_level(tasks[i], tasks[j])]
    /\ op' = "analyze_conflict_level"
    /\ conflicts' = NoConflicts
    /\ UNCHANGED <<tasks, order, groups, sorted, next_task, independent, input, output>>
    /\ UNCHANGED store_vars

\* ConflictAnalyzer.detect_conflicts(task A, [task B])
DetectConflicts ==
    /\ conflicts' = detect_conflicts(tasks[1], <<tasks[2]>>)
    /\ op' = "detect_conflicts"
    /\ level' = NoLevel
    /\ UNCHANGED <<tasks, order, groups, sorted, next_task, independent, input, output>>
    /\ UNCHANGED store_vars

NextConflict == AnalyzeConflictLevel \/ DetectConflicts

SpecConflict == InitConflict /\ [][NextConflict]_vars

(***************************************************************************)
(* Claims about the conflict analyzers (SpecConflict)                      *)
(***************************************************************************)
\* the pair the last analyze_conflict_level call was applied to
ArgA == tasks[level.a]
ArgB == tasks[level.b]

NoExplicitDependency(x, y) ==
    x.id \notin y.depends_on /\ y.id \notin x.depends_on

SharesFile(x, y) == \E f \in x.scope.files : f \in y.scope.files

SharesDirectory(x, y) ==
    \E d \in x.scope.directories : d \in y.scope.directories

\* a directory of one task is a path prefix of a directory of the other
DirectoryPrefix(x, y) ==
    \E dx \in x.scope.directories, dy \in y.scope.directories :
        dx # dy /\ (startswith(dx, dy) \/ startswith(dy, dx))

SharesModule(x, y) == \E m \in x.scope.modules : m \in y.scope.modules

ExportImportOverlap(x, y) ==
    \/ \E e \in x.scope.exports : e \in y.scope.imports
    \/ \E e \in y.scope.exports : e \in x.scope.imports

\* C8: two tasks whose scopes share a file have conflict level HARD, whatever
\* their directories, modules, imports, exports and depends_on are, in both
\* argument orders.
C8_SharedFileIsHard ==
    (op = "analyze_conflict_level" /\ SharesFile(ArgA, ArgB))
        => level.value = HARD

\* C8 witness: the call (B, A) on a pair that shares a file and a directory
\* and declares no dependency.
C8_Witness ==
    /\ op = "analyze_conflict_level"
    /\ level.a = 2
    /\ SharesFile(ArgA, ArgB)
    /\ SharesDirectory(ArgA, ArgB)
    /\ NoExplicitDependency(ArgA, ArgB)
    /\ level.value = HARD

\* C9: with no explicit dependency and no common file, the level is SOFT when
\* the directory sets intersect and also when a directory of one task is a
\* path prefix of a directory of the other.
C9_DirectoryOverlapIsSoft ==
    ( /\ op = "analyze_conflict_level"
      /\ NoExplicitDependency(ArgA, ArgB)
      /\ ~SharesFile(ArgA, ArgB)
      /\ (SharesDirectory(ArgA, ArgB) \/ DirectoryPrefix(ArgA, ArgB)) )
        => level.value = SOFT

\* the pair of C10: a shared module name and nothing else in common
ModuleOnlyPair(x, y) ==
    /\ SharesModule(x, y)
    /\ NoExplicitDependency(x, y)
    /\ ~SharesFile(x, y)
    /\ ~SharesDirectory(x, y)
    /\ ~DirectoryPrefix(x, y)
    /\ ~ExportImportOverlap(x, y)

\* the scope dict has the keys of queue_manager.ScopeInfo only
QueueScope(x) == ~x.scope.io_keys

\* C10: two tasks that share a module name but have no explicit dependency,
\* no common file, no overlapping directory and no export/import overlap have
\* conflict level NONE, while detect_conflicts for the same pair (tasks of
\* the queue, the existing one queued or running) reports one conflict, with
\* the existing task, whose reasons name the shared modules.
C10_ModuleOverlapReportOnly ==
    /\ (op = "analyze_conflict_level" /\ ModuleOnlyPair(ArgA, ArgB))
            => level.value = NONE
    /\ ( /\ op = "detect_conflicts"
         /\ ModuleOnlyPair(tasks[1], tasks[2])
         /\ QueueScope(tasks[1]) /\ QueueScope(tasks[2])
         /\ tasks[2].status \in {QUEUED, RUNNING} )
            => /\ conflicts.raised = "none"
               /\ Len(conflicts.value) = 1
               /\ conflicts.value[1].task_id = tasks[2].id
               /\ conflicts.value[1].reasons.modules # {}
               /\ \A m \in conflicts.value[1].reasons.modules :
                    m \in tasks[1].scope.modules /\ m \in tasks[2].scope.modules
               /\ conflicts.value[1].reasons.files = {}
               /\ conflicts.value[1].reasons.directories = {}

\* C10 witness: detect_conflicts has reported a module-only pair of queued
\* tasks.
C10_Witness ==
    /\ op = "detect_conflicts"
    /\ ModuleOnlyPair(tasks[1], tasks[2])
    /\ QueueScope(tasks[1]) /\ QueueScope(tasks[2])
    /\ tasks[2].status = QUEUED
    /\ tasks[1].scope.directories # {} /\ tasks[2].scope.directories # {}
    /\ Len(conflicts.value) = 1

\* C11: for two QUEUED tasks A and B, detect_conflicts(A, [B]) reports a
\* conflict if and only if analyze_conflict_level(A, B) is not NONE or the
\* two tasks share a module name; the pairs related only by depends_on, only
\* by an export/import overlap or only by a directory prefix are included.
C11_DetectIffLevelOrModule ==
    (op = "detect_conflicts" /\ tasks[2].status = QUEUED)
        => ( (conflicts.raised = "none" /\ conflicts.value # <<>>)
             <=> \/ analyze_conflict_level(tasks[1], tasks[2]) # NONE
                 \/ SharesModule(tasks[1], tasks[2]) )

(***************************************************************************)
(* SpecSched: ParallelScheduler applied to a task list                     *)
(***************************************************************************)
\* largest number of ids in one depends_on
MaxDeps == 1

\* the scopes of the scheduled tasks: one file and one directory are enough
\* to give every pair of tasks each of the three conflict levels
SchedScopes ==
    {s \in ScopeDicts :
        /\ s.files \subseteq {"auth.ts"}
        /\ s.directories \subseteq {DirSrc}
        /\ s.modules = {} /\ s.imports = {} /\ s.exports = {} /\ ~s.io_keys}

\* the fields drawn for each task of a list of n tasks; depends_on names
\* tasks of the list (the task itself included) or the absent id
TaskFields(n, scopes, statuses, priorities) ==
    [depends_on : UpTo({TaskIds[i] : i \in 1..n} \cup {AbsentId}, MaxDeps),
     scope : scopes, status : statuses, priority : priorities]

\* the list of n tasks with ids t1..tn in list order
TaskList(n, f, stamp) ==
    [i \in 1..n |->
        Task(TaskIds[i], f[i].status, f[i].priority, stamp[i],
             f[i].depends_on, f[i].scope)]

\* created_at in list order (the order of creation)
InOrder(n) == {[i \in 1..n |-> i]}

\* the permutations of a set, as sequences
Permutations_of(S) ==
    {p \in [1..Cardinality(S) -> S] : \A x \in S : \E k \in DOMAIN p : p[k] = x}

InitSched ==
    /\ \E n \in 0..MaxTasks :
        \E f \in [1..n -> TaskFields(n, SchedScopes, {QUEUED}, {"normal"})],
           stamp \in InOrder(n) :
            tasks = TaskList(n, f, stamp)
    /\ op = "init"
    /\ level = NoLevel
    /\ conflicts = NoConflicts
    /\ order = <<>>
    /\ groups = NoGroups
    /\ sorted = NoSorted
    /\ next_task = NoNext
    /\ independent = NoIndependent
    /\ input = NoInput
    /\ output = NoOutput
    /\ StoreIdle

\* One call of ParallelScheduler.create_parallel_groups(tasks), with the
\* iteration order of the node set drawn among its permutations
CreateParallelGroups ==
    /\ op = "init"
    /\ \E node_order \in Permutations_of(build_dependency_graph(tasks).nodes) :
        /\ order' = node_order
        /\ groups' = create_parallel_groups(tasks, node_order)
    /\ op' = "create_parallel_groups"
    /\ UNCHANGED <<tasks, level, conflicts, sorted, next_task, independent, input, output>>
    /\ UNCHANGED store_vars

\* One call of ParallelScheduler.generate_execution_plan(tasks)
GenerateExecutionPlan ==
    /\ op = "init"
    /\ \E node_order \in Permutations_of(build_dependency_graph(tasks).nodes) :
        /\ order' = node_order
        /\ groups' = create_parallel_groups(tasks, node_order)
        /\ output' = generate_execution_plan(tasks, node_order)
    /\ op' = "generate_execution_plan"
    /\ input' = [op |-> "generate_execution_plan", count |-> Len(tasks)]
    /\ UNCHANGED <<tasks, level, conflicts, sorted, next_task, independent>>
    /\ UNCHANGED store_vars

NextSched == CreateParallelGroups \/ GenerateExecutionPlan

SpecSched == InitSched /\ [][NextSched]_vars

(***************************************************************************)
(* Claims about ParallelScheduler (SpecSched)                              *)
(***************************************************************************)
\* the task ids of all groups of a plan, group after group
RECURSIVE Concatenated(_)
Concatenated(plan) ==
    IF plan = <<>> THEN <<>> ELSE Head(plan).tasks \o Concatenated(Tail(plan))

Positions(seq, x) == {k \in 1..Len(seq) : seq[k] = x}

\* every dependency that is a task of the list comes strictly before its
\* dependent in the sequence of ids
DependenciesFirst(ids, task_list) ==
    \A i \in 1..Len(task_list) :
        \A d \in task_list[i].depends_on \cap task_ids(task_list) :
            \A pt \in Positions(ids, task_list[i].id) :
                \E pd \in Positions(ids, d) : pd < pt

\* the depends_on relation, restricted to the list, has no cycle: some
\* arrangement of the list puts every dependency first
AcyclicDependsOn(task_list) ==
    \E p \in Permutations_of(task_ids(task_list)) : DependenciesFirst(p, task_list)

NamesAbsentId(task) == task.depends_on \ task_ids(tasks) # {}

\* the two tasks are HARD for each other: a shared file, or a depends_on
\* between them in either direction
HardPair(x, y) == SharesFile(x, y) \/ ~NoExplicitDependency(x, y)

\* C1: no group returned by create_parallel_groups contains two tasks that
\* share a file or that depend on one another.
C1_NoHardPairInGroup ==
    (op = "create_parallel_groups" /\ groups.raised = "none")
        => \A g \in 1..Len(groups.value) :
            \A m, n \in 1..Len(groups.value[g].tasks) :
                m # n => ~HardPair(task_map(tasks, groups.value[g].tasks[m]),
                                   task_map(tasks, groups.value[g].tasks[n]))

\* C1 witness: a returned plan with a parallel group, for a list of three
\* tasks of which two share a file.
C1_Witness ==
    /\ op = "create_parallel_groups"
    /\ groups.raised = "none"
    /\ Len(tasks) = 3
    /\ \E i, j \in 1..3 : i # j /\ SharesFile(tasks[i], tasks[j])
    /\ \E g \in 1..Len(groups.value) : Len(groups.value[g].tasks) = 2

\* C2: for a list whose depends_on relation is acyclic, the groups,
\* concatenated in order, contain every input task exactly once and place
\* each task after the tasks named in its depends_on, whatever the position
\* of the tasks in the list.  (Stated here for the lists whose depends_on
\* names tasks of the list only; the lists that name an absent id are those
\* of C7.)
C2_GroupsAreTopologicalOrder ==
    ( /\ op = "create_parallel_groups"
      /\ AcyclicDependsOn(tasks)
      /\ \A i \in 1..Len(tasks) : ~NamesAbsentId(tasks[i]) )
        => /\ groups.raised = "none"
           /\ \A i \in 1..Len(tasks) :
                Cardinality(Positions(Concatenated(groups.value), tasks[i].id)) = 1
           /\ Len(Concatenated(groups.value)) = Len(tasks)
           /\ DependenciesFirst(Concatenated(groups.value), tasks)

\* C7: when a task's depends_on names an id that is not among the tasks being
\* grouped, create_parallel_groups does not fail and returns a plan that
\* contains that task.
C7_AbsentDependencyIsSatisfied ==
    op = "create_parallel_groups"
        => \A i \in 1..Len(tasks) :
            (NamesAbsentId(tasks[i]) /\ AcyclicDependsOn(tasks))
                => /\ groups.raised = "none"
                   /\ Positions(Concatenated(groups.value), tasks[i].id) # {}

\* the position of a task id in the list
PositionOf(tid) == CHOOSE i \in 1..Len(tasks) : tasks[i].id = tid

\* the ordering constraints between two tasks of the list: y names x in its
\* depends_on (dependency), or x is listed before y and the two are a HARD
\* pair (HARD conflict)
OrderingEdge(x, y) ==
    \/ x \in task_map(tasks, y).depends_on
    \/ /\ PositionOf(x) < PositionOf(y)
       /\ HardPair(task_map(tasks, x), task_map(tasks, y))

\* a path of 1..k ordering edges leads from x to y
RECURSIVE PathWithin(_, _, _)
PathWithin(x, y, k) ==
    /\ k > 0
    /\ \/ OrderingEdge(x, y)
       \/ \E z \in task_ids(tasks) : OrderingEdge(x, z) /\ PathWithin(z, y, k - 1)

OnCycle(x) == PathWithin(x, x, Len(tasks))

\* the task is on a cycle or downstream of one
BehindCycle(x) ==
    \E c \in task_ids(tasks) :
        OnCycle(c) /\ (c = x \/ PathWithin(c, x, Len(tasks)))

\* C14: create_parallel_groups returns on every list (whose depends_on names
\* tasks of the list), cyclic or not, after at most one round per task; on a
\* cycle the returned groups hold, once each, exactly the tasks that are
\* neither on a cycle nor downstream of one through dependency or
\* HARD-conflict edges.
C14_CycleKeepsBuiltGroups ==
    ( /\ op = "create_parallel_groups"
      /\ \A i \in 1..Len(tasks) : ~NamesAbsentId(tasks[i]) )
        => /\ groups.raised = "none"
           /\ Len(groups.value) <= Len(tasks)
           /\ \A g \in 1..Len(groups.value) : groups.value[g].tasks # <<>>
           /\ \A tid \in task_ids(tasks) :
                IF BehindCycle(tid)
                THEN Positions(Concatenated(groups.value), tid) = {}
                ELSE Cardinality(Positions(Concatenated(groups.value), tid)) = 1

\* C14 witness: two tasks depend on each other, a third one, listed last, is
\* free of them and is the only task of the returned groups.
C14_Witness ==
    /\ op = "create_parallel_groups"
    /\ Len(tasks) = 3
    /\ tasks[1].depends_on = {tasks[2].id}
    /\ tasks[2].depends_on = {tasks[1].id}
    /\ tasks[3].depends_on = {}
    /\ ~BehindCycle(tasks[3].id)
    /\ groups.raised = "none"
    /\ Concatenated(groups.value) = <<tasks[3].id>>

\* the tasks that must be scheduled before the task: its explicit
\* dependencies and the HARD-conflicting tasks listed before it
Predecessors(tid) == {x \in task_ids(tasks) : OrderingEdge(x, tid)}

\* the ordering constraints of the list have no cycle
AcyclicGraph == \A x \in task_ids(tasks) : ~OnCycle(x)

\* the members of each group of a plan, group after group
Memberships(plan) ==
    [g \in 1..Len(plan) |-> {plan[g].tasks[n] : n \in 1..Len(plan[g].tasks)}]

\* the number of the group that holds the task (0: none)
GroupNumber(plan, tid) ==
    IF \E g \in 1..Len(plan) : tid \in Memberships(plan)[g]
    THEN CHOOSE g \in 1..Len(plan) : tid \in Memberships(plan)[g]
    ELSE 0

\* the largest number of a set of group numbers (0 for the empty set)
Largest(S) == IF S = {} THEN 0 ELSE CHOOSE x \in S : \A y \in S : y <= x

\* C39: for a list without a cycle of ordering constraints (whose depends_on
\* names tasks of the list), every task is in exactly one group, group 1
\* holds exactly the tasks without predecessor, the group number of a task
\* is one more than the largest group number of its predecessors, and
\* every iteration order of the node set gives the same members to each
\* group.
C39_EarliestGroup ==
    ( /\ op = "create_parallel_groups"
      /\ AcyclicGraph
      /\ \A i \in 1..Len(tasks) : ~NamesAbsentId(tasks[i]) )
        => /\ groups.raised = "none"
           /\ \A tid \in task_ids(tasks) :
                /\ Cardinality(Positions(Concatenated(groups.value), tid)) = 1
                /\ GroupNumber(groups.value, tid) =
                      1 + Largest({GroupNumber(groups.value, x) :
                                        x \in Predecessors(tid)})
                /\ (GroupNumber(groups.value, tid) = 1) <=> (Predecessors(tid) = {})
           /\ \A node_order \in Permutations_of(task_ids(tasks)) :
                Memberships(create_parallel_groups(tasks, node_order).value)
                    = Memberships(groups.value)

\* C39 witness: three tasks in three groups through a dependency and a
\* shared file, grouped with the node set iterated in reverse list order
C39_Witness ==
    /\ op = "create_parallel_groups"
    /\ groups.raised = "none"
    /\ Len(tasks) = 3
    /\ AcyclicGraph
    /\ tasks[1].depends_on = {} /\ tasks[2].depends_on = {tasks[1].id}
    /\ tasks[3].depends_on = {}
    /\ SharesFile(tasks[2], tasks[3])
    /\ order = <<tasks[3].id, tasks[2].id, tasks[1].id>>
    /\ Memberships(groups.value) = <<{tasks[1].id}, {tasks[2].id}, {tasks[3].id}>>

\* a free task shares the second group with no one while the first group
\* holds two tasks
C39_WideFirstGroup ==
    /\ op = "create_parallel_groups"
    /\ groups.raised = "none"
    /\ Len(tasks) = 3
    /\ AcyclicGraph
    /\ Len(groups.value) = 2
    /\ Cardinality(Memberships(groups.value)[1]) = 2
    /\ order[1] = tasks[3].id

\* the two tasks are SOFT for each other: no dependency between them, no
\* common file, and a common directory or an export/import overlap
SoftPair(x, y) ==
    /\ ~HardPair(x, y)
    /\ SharesDirectory(x, y) \/ ExportImportOverlap(x, y)

GroupMembers(g) == {groups.value[g].tasks[n] : n \in 1..Len(groups.value[g].tasks)}

\* the number of the group that holds the task (0: none)
GroupOf(tid) ==
    IF \E g \in 1..Len(groups.value) : tid \in GroupMembers(g)
    THEN CHOOSE g \in 1..Len(groups.value) : tid \in GroupMembers(g)
    ELSE 0

\* C15: in every returned group has_soft_conflicts is true exactly when two
\* of its members are a SOFT pair, every pair of soft_conflict_pairs is a
\* SOFT pair of two members of that group, and a SOFT pair is split over
\* two groups only when the later task waits for a dependency or HARD
\* predecessor that is not scheduled before the earlier group.
C15_SoftConflictsRecorded ==
    (op = "create_parallel_groups" /\ groups.raised = "none")
        => /\ \A g \in 1..Len(groups.value) :
                LET group == groups.value[g]
                    pairs == group.soft_conflict_pairs
                IN  /\ group.has_soft_conflicts
                        <=> \E x, y \in GroupMembers(g) :
                                x # y /\ SoftPair(task_map(tasks, x), task_map(tasks, y))
                    /\ \A k \in 1..Len(pairs) :
                            /\ pairs[k][1] \in GroupMembers(g)
                            /\ pairs[k][2] \in GroupMembers(g)
                            /\ SoftPair(task_map(tasks, pairs[k][1]),
                                        task_map(tasks, pairs[k][2]))
           /\ \A x, y \in task_ids(tasks) :
                ( /\ SoftPair(task_map(tasks, x), task_map(tasks, y))
                  /\ GroupOf(x) > 0
                  /\ GroupOf(x) < GroupOf(y) )
                    => \E z \in task_ids(tasks) :
                            OrderingEdge(z, y) /\ GroupOf(z) >= GroupOf(x)

\* C15 witness: a group of three tasks with one recorded SOFT pair, the
\* third member being SOFT with neither of the two.
C15_Witness ==
    /\ op = "create_parallel_groups"
    /\ groups.raised = "none"
    /\ Len(groups.value) = 1
    /\ Len(groups.value[1].tasks) = 3
    /\ groups.value[1].has_soft_conflicts
    /\ Len(groups.value[1].soft_conflict_pairs) = 1

\* n is the size of the largest group of the plan (0 for no group)
IsLargestGroupSize(n, group_list) ==
    /\ \A i \in 1..Len(group_list) : Len(group_list[i].tasks) <= n
    /\ \/ group_list = <<>> /\ n = 0
       \/ \E i \in 1..Len(group_list) : Len(group_list[i].tasks) = n

\* C21: generate_execution_plan reports sequential_time equal to the number
\* of input tasks, parallel_time and total_groups equal to the number of
\* groups, estimated_parallelism and sessions_needed equal to the size of the
\* largest group, and time_savings_percent equal to
\* 100 * (sequential - parallel) / sequential, which is never negative.
C21_PlanNumbers ==
    (op = "generate_execution_plan" /\ output.raised = "none") =>
        /\ output.groups = groups.value
        /\ output.sequential_time = Len(tasks)
        /\ output.parallel_time = Len(output.groups)
        /\ output.total_groups = Len(output.groups)
        /\ IsLargestGroupSize(output.estimated_parallelism, output.groups)
        /\ IsLargestGroupSize(output.sessions_needed, output.groups)
        /\ output.time_savings_percent.den > 0
        /\ output.time_savings_percent.num * output.sequential_time =
                100 * (output.sequential_time - output.parallel_time)
                    * output.time_savings_percent.den
        /\ output.time_savings_percent.num >= 0

\* C21 witness: a plan of three tasks in two groups, the larger of two
\* tasks, saving 100/3 percent.
C21_Witness ==
    /\ op = "generate_execution_plan"
    /\ output.raised = "none"
    /\ Len(tasks) = 3
    /\ output.sequential_time = 3
    /\ output.total_groups = 2
    /\ output.estimated_parallelism = 2
    /\ output.time_savings_percent = [num |-> 100, den |-> 3]

(***************************************************************************)
(* SpecResolver: DependencyResolver applied to a task list                 *)
(***************************************************************************)
\* created_at ascending with the list position, descending, or all equal
Stamps(n) == InOrder(n) \cup {[i \in 1..n |-> n + 1 - i], [i \in 1..n |-> 1]}

PriorityNames == {"critical", "high", "normal", "low"}

\* queued lists of every priority and creation order, and lists of queued,
\* running and completed tasks
InitResolver ==
    /\ \E n \in 0..MaxTasks :
        \/ \E f \in [1..n -> TaskFields(n, {EmptyScope}, {QUEUED}, PriorityNames)],
              stamp \in Stamps(n) :
                tasks = TaskList(n, f, stamp)
        \/ \E f \in [1..n -> TaskFields(n, {EmptyScope},
                                        {QUEUED, RUNNING, COMPLETED},
                                        {"high", "normal"})],
              stamp \in InOrder(n) :
                tasks = TaskList(n, f, stamp)
    /\ op = "init"
    /\ level = NoLevel
    /\ conflicts = NoConflicts
    /\ order = <<>>
    /\ groups = NoGroups
    /\ sorted = NoSorted
    /\ next_task = NoNext
    /\ independent = NoIndependent
    /\ input = NoInput
    /\ output = NoOutput
    /\ StoreIdle

\* DependencyResolver.topological_sort(tasks)
TopologicalSort ==
    /\ sorted' = topological_sort(tasks)
    /\ op' = "topological_sort"
    /\ next_task' = NoNext
    /\ independent' = NoIndependent
    /\ UNCHANGED <<tasks, level, conflicts, order, groups, input, output>>
    /\ UNCHANGED store_vars

\* DependencyResolver.get_next_executable(tasks)
GetNextExecutable ==
    /\ next_task' = get_next_executable(tasks)
    /\ op' = "get_next_executable"
    /\ sorted' = NoSorted
    /\ independent' = NoIndependent
    /\ UNCHANGED <<tasks, level, conflicts, order, groups, input, output>>
    /\ UNCHANGED store_vars

\* DependencyResolver.get_independent_tasks(tasks, failed_task_id), for the
\* id of a task of the list or of a task that has left it
GetIndependentTasks ==
    /\ \E failed_task_id \in task_ids(tasks) \cup {AbsentId} :
        independent' = get_independent_tasks(tasks, failed_task_id)
    /\ op' = "get_independent_tasks"
    /\ sorted' = NoSorted
    /\ next_task' = NoNext
    /\ UNCHANGED <<tasks, level, conflicts, order, groups, input, output>>
    /\ UNCHANGED store_vars

NextResolver == TopologicalSort \/ GetNextExecutable \/ GetIndependentTasks

SpecResolver == InitResolver /\ [][NextResolver]_vars

(***************************************************************************)
(* Claims about DependencyResolver (SpecResolver)                          *)
(***************************************************************************)
IsPermutationOf(ids, task_list) ==
    /\ Len(ids) = Len(task_list)
    /\ \A i \in 1..Len(task_list) :
            Cardinality(Positions(ids, task_list[i].id)) = 1

\* C3, the order: for a list whose depends_on relation is acyclic,
\* topological_sort returns a permutation of the list in which every task
\* comes after each task of the list named in its depends_on; ids that are
\* not in the list are ignored.
C3_SortedOrder ==
    (op = "topological_sort" /\ AcyclicDependsOn(tasks))
        => /\ sorted.raised = "none"
           /\ IsPermutationOf(sorted.value, tasks)
           /\ DependenciesFirst(sorted.value, tasks)

\* C3, the repetition: a call that follows a call on the same list returns
\* the same order.
C3_SameOrderAgain ==
    (op = "topological_sort" /\ op' = "topological_sort" /\ tasks' = tasks)
        => sorted' = sorted

C4_CycleRaises ==
    (op = "topological_sort" /\ ~AcyclicDependsOn(tasks))
        => sorted.raised = "ValueError" /\ sorted.value = <<>>

\* C4 witness: the error raised on a 3-cycle.
C4_Witness ==
    /\ op = "topological_sort"
    /\ Len(tasks) = 3
    /\ tasks[1].depends_on = {tasks[3].id}
    /\ tasks[2].depends_on = {tasks[1].id}
    /\ tasks[3].depends_on = {tasks[2].id}
    /\ sorted.raised = "ValueError"

QueuedTasks == with_status(tasks, QUEUED)

\* every depends_on id of the task is the id of a COMPLETED task of the list
Qualifies(task) ==
    \A d \in task.depends_on :
        \E i \in 1..Len(tasks) : tasks[i].id = d /\ tasks[i].status = COMPLETED

\* the positions, in topological_sort order over the QUEUED tasks, of the
\* tasks that qualify
QualifyingPositions ==
    LET ordered == topological_sort(QueuedTasks).value
    IN  {k \in 1..Len(ordered) : Qualifies(task_map(tasks, ordered[k]))}

EarliestQualifying ==
    LET ordered == topological_sort(QueuedTasks).value
    IN  ordered[CHOOSE k \in QualifyingPositions :
                    \A other \in QualifyingPositions : k <= other]

\* C5: a QUEUED task whose depends_on names only ids that are absent from
\* the task list is not blocked by them: get_next_executable treats them as
\* satisfied and returns a task.
C5_AbsentDependencyNotBlocking ==
    ( /\ op = "get_next_executable"
      /\ AcyclicDependsOn(QueuedTasks)
      /\ \E i \in 1..Len(tasks) :
            /\ tasks[i].status = QUEUED
            /\ tasks[i].depends_on # {}
            /\ tasks[i].depends_on \cap task_ids(tasks) = {} )
        => next_task.raised = "none" /\ next_task.found

\* C6 as claimed: get_next_executable returns the earliest task, in
\* topological_sort order over the QUEUED tasks, whose every depends_on id
\* is the id of a COMPLETED task of the list, and returns no task when the
\* queue is empty or no QUEUED task qualifies.
C6_AsClaimed ==
    op = "get_next_executable"
        => /\ QualifyingPositions # {}
                => /\ next_task.raised = "none"
                   /\ next_task.found
                   /\ next_task.id = EarliestQualifying
           /\ (\A i \in 1..Len(QueuedTasks) : ~Qualifies(QueuedTasks[i]))
                => next_task.raised = "none" /\ ~next_task.found

\* C6 as amended: when the depends_on relation of the QUEUED tasks has no
\* cycle, get_next_executable returns the earliest qualifying task of the
\* topological_sort order, and no task when none qualifies; when the QUEUED
\* tasks have a dependency cycle it raises the circular-dependency error.
C6_NextExecutable ==
    op = "get_next_executable"
        => IF AcyclicDependsOn(QueuedTasks)
           THEN /\ next_task.raised = "none"
                /\ next_task.found <=> QualifyingPositions # {}
                /\ next_task.found => next_task.id = EarliestQualifying
           ELSE next_task.raised = "ValueError" /\ ~next_task.found

\* C6 witness: the task returned depends on a completed task and is not the
\* first of the order, which is blocked.
C6_Witness ==
    /\ op = "get_next_executable"
    /\ next_task.found
    /\ Len(QueuedTasks) = 2
    /\ next_task.id # topological_sort(QueuedTasks).value[1]
    /\ task_map(tasks, next_task.id).depends_on # {}
    /\ \E i \in 1..Len(tasks) : tasks[i].status = COMPLETED

\* the task with this id depends on the target, directly or through a chain
\* of at most k depends_on links between tasks of the list
RECURSIVE DependsOnWithin(_, _, _)
DependsOnWithin(tid, target, k) ==
    /\ k > 0
    /\ tid \in task_ids(tasks)
    /\ \/ target \in task_map(tasks, tid).depends_on
       \/ \E d \in task_map(tasks, tid).depends_on :
            DependsOnWithin(d, target, k - 1)

DependsOnFailed(tid) == DependsOnWithin(tid, independent.failed_task_id, Len(tasks))

\* C12: get_independent_tasks(tasks, failed_id) returns exactly the QUEUED
\* tasks of the list, in list order, that are not the failed task and do not
\* depend on it directly or through a chain of depends_on; its loop ends
\* after at most one pass per task of the list plus one, on cyclic lists too.
C12_IndependentTasks ==
    op = "get_independent_tasks"
        => /\ independent.value =
                Filter(id_list(tasks),
                       {tid \in task_ids(tasks) :
                            /\ task_map(tasks, tid).status = QUEUED
                            /\ tid # independent.failed_task_id
                            /\ ~DependsOnFailed(tid)})
           /\ independent.passes <= Len(tasks) + 1

\* C12 witness: on a list with a cycle, two tasks that depend on the failed
\* one through a chain and are listed before it, closed in three passes.
C12_Witness ==
    /\ op = "get_independent_tasks"
    /\ Len(tasks) = 3
    /\ \A i \in 1..3 : tasks[i].status = QUEUED
    /\ independent.failed_task_id = tasks[3].id
    /\ tasks[1].depends_on = {tasks[2].id}
    /\ tasks[2].depends_on = {tasks[3].id}
    /\ tasks[3].depends_on = {tasks[1].id}
    /\ independent.passes = 3
    /\ independent.value = <<>>

\* the (priority rank, created_at) key of x is strictly smaller than that of y
KeyLess(x, y) ==
    \/ Priority[x.priority] < Priority[y.priority]
    \/ Priority[x.priority] = Priority[y.priority] /\ x.created_at < y.created_at

\* the ids emitted before position k of the returned order
EmittedBefore(k) == {sorted.value[n] : n \in 1..(k - 1)}

\* the tasks that are ready when position k is emitted: not emitted yet, all
\* their dependencies that are tasks of the list emitted
ReadyAt(k) ==
    {tid \in task_ids(tasks) \ EmittedBefore(k) :
        task_map(tasks, tid).depends_on \cap task_ids(tasks) \subseteq EmittedBefore(k)}

\* C13, the frontier: the task emitted at each position is ready, and no
\* other ready task has a strictly smaller (priority rank, created_at) key.
C13_MinimalAmongReady ==
    (op = "topological_sort" /\ sorted.raised = "none")
        => \A k \in 1..Len(sorted.value) :
            /\ sorted.value[k] \in ReadyAt(k)
            /\ \A other \in ReadyAt(k) :
                    ~KeyLess(task_map(tasks, other), task_map(tasks, sorted.value[k]))

\* neither task depends on the other, directly or through a chain
Unrelated(x, y) ==
    /\ x # y
    /\ ~DependsOnWithin(x, y, Len(tasks))
    /\ ~DependsOnWithin(y, x, Len(tasks))

Precedes(x, y) ==
    \E px \in Positions(sorted.value, x), py \in Positions(sorted.value, y) : px < py

\* C13 as claimed: the frontier rule, and among tasks with no dependency
\* between them a critical task always precedes a lower-priority one.
C13_AsClaimed ==
    /\ C13_MinimalAmongReady
    /\ (op = "topological_sort" /\ sorted.raised = "none")
            => \A x, y \in task_ids(tasks) :
                ( /\ Unrelated(x, y)
                  /\ task_map(tasks, x).priority = "critical"
                  /\ task_map(tasks, y).priority # "critical" )
                    => Precedes(x, y)

\* the task has no dependency among the tasks of the list
NoListDependency(tid) == task_map(tasks, tid).depends_on \cap task_ids(tasks) = {}

\* C13 as amended: the frontier rule, and among the tasks that have no
\* dependency in the list a task with a strictly smaller key (a critical task
\* against a lower-priority one) precedes the other.
C13_FrontierOrder ==
    /\ C13_MinimalAmongReady
    /\ (op = "topological_sort" /\ sorted.raised = "none")
            => \A x, y \in task_ids(tasks) :
                ( /\ NoListDependency(x) /\ NoListDependency(y)
                  /\ KeyLess(task_map(tasks, x), task_map(tasks, y)) )
                    => Precedes(x, y)

\* C13 witness: a critical task created last and listed last is emitted
\* first, before a dependent becomes ready.
C13_Witness ==
    /\ op = "topological_sort"
    /\ sorted.raised = "none"
    /\ Len(tasks) = 3
    /\ tasks[3].priority = "critical" /\ tasks[3].depends_on = {}
    /\ tasks[3].created_at > tasks[1].created_at
    /\ tasks[1].priority = "high" /\ tasks[1].depends_on = {}
    /\ tasks[2].priority = "critical" /\ tasks[2].depends_on = {tasks[1].id}
    /\ sorted.value = <<tasks[3].id, tasks[1].id, tasks[2].id>>

(***************************************************************************)
(* queue_manager.py: ConflictAnalyzer.extract_scope.  A command is a       *)
(* character sequence and re.findall is computed on it: a pattern of       *)
(* PATTERNS is a choice of leading words, an optional run of white space,  *)
(* a captured group and an optional run of white space followed by a       *)
(* choice of closing words.  The patterns that need "/sc:", "/queue" or    *)
(* Korean text match nothing in a command written with the characters of   *)
(* the model and are left out.                                             *)
(***************************************************************************)
UpperCase == <<"A", "B", "C", "D", "E", "F", "G", "H", "I", "J", "K", "L", "M",
               "N", "O", "P", "Q", "R", "S", "T", "U", "V", "W", "X", "Y", "Z">>
LowerCase == <<"a", "b", "c", "d", "e", "f", "g", "h", "i", "j", "k", "l", "m",
               "n", "o", "p", "q", "r", "s", "t", "u", "v", "w", "x", "y", "z">>

\* str.lower
lower(str) ==
    [i \in 1..Len(str) |->
        IF \E k \in 1..26 : UpperCase[k] = str[i]
        THEN LowerCase[CHOOSE k \in 1..26 : UpperCase[k] = str[i]]
        ELSE str[i]]

\* a in b, for two strings
contains(b, a) ==
    \E i \in 0..(Len(b) - Len(a)) : SubSeq(b, i + 1, i + Len(a)) = a

Letters == {LowerCase[k] : k \in 1..26}
Digits == {"0", "1", "2", "3", "4", "5", "6", "7", "8", "9"}
\* \w, on a lower-case string
WordChars == Letters \cup Digits \cup {"_"}

\* the last position of the longest run of characters of S (not of S) that
\* starts at p; p - 1 when the run is empty
run_end_in(str, p, S) ==
    CHOOSE e \in (p - 1)..Len(str) :
        /\ \A k \in p..e : str[k] \in S
        /\ e = Len(str) \/ str[e + 1] \notin S

run_end_not_in(str, p, S) ==
    CHOOSE e \in (p - 1)..Len(str) :
        /\ \A k \in p..e : str[k] \notin S
        /\ e = Len(str) \/ str[e + 1] \in S

\* the literal lit stands at position p
literal_at(str, p, lit) ==
    /\ p >= 1
    /\ p + Len(lit) - 1 <= Len(str)
    /\ SubSeq(str, p, p + Len(lit) - 1) = lit

\* \s+ at position p: the position after the white space, 0 when there is
\* no white space at p
after_space(str, p) ==
    LET e == run_end_in(str, p, {" "})
    IN  IF p >= 1 /\ p <= Len(str) /\ e >= p THEN e + 1 ELSE 0

\* the captured group at position q: the position of its last character, 0
\* when the group does not match
\*   word  (\w+)
\*   file  ([^\s]+\.[a-z]+)
\*   dir   ([^\s/]+/[^\s]*)
\*   src   (src/[^\s]*)
group_end(str, q, group) ==
    IF q < 1 \/ q > Len(str) THEN 0
    ELSE IF group = "word"
    THEN LET e == run_end_in(str, q, WordChars) IN IF e >= q THEN e ELSE 0
    ELSE IF group = "file"
    THEN LET r == run_end_not_in(str, q, {" "})
             dots == {d \in (q + 1)..(r - 1) :
                        str[d] = "." /\ str[d + 1] \in Letters}
         IN  IF dots = {} THEN 0
             ELSE run_end_in(str, (CHOOSE d \in dots : \A x \in dots : x <= d) + 1,
                             Letters)
    ELSE IF group = "dir"
    THEN LET e == run_end_not_in(str, q, {" ", "/"})
         IN  IF e >= q /\ e < Len(str) /\ str[e + 1] = "/"
             THEN run_end_not_in(str, e + 2, {" "})
             ELSE 0
    ELSE IF literal_at(str, q, <<"s", "r", "c", "/">>)
         THEN run_end_not_in(str, q + 4, {" "})
         ELSE 0

\* a pattern that starts with the leading word lead, tried at position p:
\* whether it matches, the captured group and the last position matched
match_lead(str, p, pattern, lead) ==
    LET q0 == p + Len(lead)
        q == IF pattern.gap THEN after_space(str, q0) ELSE q0
        e == group_end(str, q, pattern.group)
        t == IF e = 0 THEN 0 ELSE after_space(str, e + 1)
        tails == {tl \in pattern.tail : literal_at(str, t, tl)}
    IN  IF ~literal_at(str, p, lead) \/ e = 0
        THEN [ok |-> FALSE, from |-> 0, to |-> 0, stop |-> 0]
        ELSE IF pattern.tail = {}
        THEN [ok |-> TRUE, from |-> q, to |-> e, stop |-> e]
        ELSE IF tails = {}
        THEN [ok |-> FALSE, from |-> 0, to |-> 0, stop |-> 0]
        ELSE [ok |-> TRUE, from |-> q, to |-> e,
              stop |-> t + Len(CHOOSE tl \in tails : TRUE) - 1]

\* a pattern tried at position p
match_at(str, p, pattern) ==
    LET leads == {lead \in pattern.lead : match_lead(str, p, pattern, lead).ok}
    IN  IF leads = {}
        THEN [ok |-> FALSE, from |-> 0, to |-> 0, stop |-> 0]
        ELSE match_lead(str, p, pattern, CHOOSE lead \in leads : TRUE)

\* re.findall(pattern, str) from position p on: the captured groups of the
\* matches found from left to right, none overlapping another
RECURSIVE findall(_, _, _)
findall(str, p, pattern) ==
    IF p > Len(str) THEN {}
    ELSE LET found == match_at(str, p, pattern)
         IN  IF found.ok
             THEN {SubSeq(str, found.from, found.to)}
                    \cup findall(str, found.stop + 1, pattern)
             ELSE findall(str, p + 1, pattern)

\* the union of re.findall over the patterns of one category
findall_any(str, patterns) ==
    UNION {findall(str, 1, pattern) : pattern \in patterns}

Pattern(lead, gap, group, tail) ==
    [lead |-> lead, gap |-> gap, group |-> group, tail |-> tail]

\* PATTERNS["file_ops"]
FileOps ==
    {Pattern({<<"e", "d", "i", "t">>, <<"m", "o", "d", "i", "f", "y">>, <<"u", "p", "d", "a", "t", "e">>,
     <<"f", "i", "x">>, <<"r", "e", "f", "a", "c", "t", "o", "r">>},
             TRUE, "file", {}),
     Pattern({<<"i", "n">>, <<"a", "t">>, <<"f", "i", "l", "e">>}, TRUE, "file", {}),
     Pattern({<<"@">>}, FALSE, "file", {}),
     Pattern({<<"t", "h", "e">>, <<"a">>}, TRUE, "file", {<<"f", "i", "l", "e">>})}

\* PATTERNS["module_ops"] and the first pattern of PATTERNS["natural_language"]
ModuleOps ==
    {Pattern({<<"m", "i", "g", "r", "a", "t", "e">>, <<"u", "p", "d", "a", "t", "e">>, <<"r", "e", "f", "a", "c", "t", "o", "r">>,
     <<"f", "i", "x">>, <<"a", "d", "d">>, <<"c", "r", "e", "a", "t", "e">>,
     <<"i", "m", "p", "l", "e", "m", "e", "n", "t">>, <<"d", "e", "l", "e", "t", "e">>, <<"r", "e", "m", "o", "v", "e">>,
     <<"t", "e", "s", "t">>, <<"a", "n", "a", "l", "y", "z", "e">>, <<"b", "u", "i", "l", "d">>,
     <<"i", "m", "p", "r", "o", "v", "e">>, <<"e", "n", "a", "b", "l", "e">>, <<"d", "i", "s", "a", "b", "l", "e">>},
             TRUE, "word", {}),
     Pattern({<<"m", "o", "d", "u", "l", "e">>, <<"c", "o", "m", "p", "o", "n", "e", "n", "t">>, <<"s", "e", "r", "v", "i", "c", "e">>,
     <<"f", "e", "a", "t", "u", "r", "e">>}, TRUE, "word", {}),
     Pattern({<<>>}, FALSE, "word",
             {<<"m", "o", "d", "u", "l", "e">>, <<"c", "o", "m", "p", "o", "n", "e", "n", "t">>, <<"s", "e", "r", "v", "i", "c", "e">>,
     <<"f", "e", "a", "t", "u", "r", "e">>}),
     Pattern({<<"t", "h", "e">>, <<"a">>}, TRUE, "word",
             {<<"b", "u", "g">>, <<"i", "s", "s", "u", "e">>, <<"e", "r", "r", "o", "r">>,
     <<"p", "r", "o", "b", "l", "e", "m">>, <<"m", "o", "d", "u", "l", "e">>, <<"c", "o", "m", "p", "o", "n", "e", "n", "t">>,
     <<"f", "e", "a", "t", "u", "r", "e">>})}

\* PATTERNS["directory_ops"]
DirectoryOps ==
    {Pattern({<<"i", "n">>, <<"u", "n", "d", "e", "r">>, <<"d", "i", "r", "e", "c", "t", "o", "r", "y">>}, TRUE, "dir", {}),
     Pattern({<<"i", "n">>, <<"u", "n", "d", "e", "r">>}, TRUE, "src", {})}

\* the words of the second pattern of PATTERNS["natural_language"]
DomainWords ==
    {<<"a", "u", "t", "h", "e", "n", "t", "i", "c", "a", "t", "i", "o", "n">>, <<"a", "u", "t", "h", "o", "r", "i", "z", "a", "t", "i", "o", "n">>, <<"l", "o", "g", "i", "n">>,
     <<"l", "o", "g", "o", "u", "t">>, <<"s", "i", "g", "n", "u", "p">>, <<"p", "r", "o", "f", "i", "l", "e">>,
     <<"u", "s", "e", "r">>, <<"a", "d", "m", "i", "n">>, <<"p", "a", "y", "m", "e", "n", "t">>,
     <<"c", "a", "r", "t">>, <<"c", "h", "e", "c", "k", "o", "u", "t">>, <<"o", "r", "d", "e", "r">>,
     <<"p", "r", "o", "d", "u", "c", "t">>, <<"n", "o", "t", "i", "f", "i", "c", "a", "t", "i", "o", "n">>, <<"e", "m", "a", "i", "l">>,
     <<"a", "p", "i">>, <<"d", "a", "t", "a", "b", "a", "s", "e">>, <<"c", "a", "c", "h", "e">>,
     <<"s", "e", "s", "s", "i", "o", "n">>}

\* re.findall of (?:authentication|...|session)\b from position p on
RECURSIVE findall_words(_, _)
findall_words(str, p) ==
    IF p > Len(str) THEN {}
    ELSE LET here == {w \in DomainWords :
                        /\ literal_at(str, p, w)
                        /\ \/ p + Len(w) > Len(str)
                           \/ str[p + Len(w)] \notin WordChars}
         IN  IF here = {} THEN findall_words(str, p + 1)
             ELSE LET w == CHOOSE x \in here : TRUE
                  IN  {w} \cup findall_words(str, p + Len(w))

\* the words that extract_scope never keeps as a module
NonModuleWords ==
    {<<"t", "h", "e">>, <<"a">>, <<"a", "n">>,
     <<"i", "n">>, <<"a", "t">>, <<"o", "n">>,
     <<"f", "o", "r">>, <<"t", "o">>, <<"o", "f">>,
     <<"t", "e", "s", "t", "s">>, <<"t", "e", "s", "t">>, <<"f", "i", "l", "e">>,
     <<"f", "i", "l", "e", "s">>, <<"a", "l", "l">>, <<"t", "h", "i", "s">>,
     <<"t", "h", "a", "t">>, <<"p", "l", "e", "a", "s", "e">>, <<"h", "e", "l", "p">>,
     <<"n", "e", "e", "d">>, <<"w", "a", "n", "t">>, <<"s", "h", "o", "u", "l", "d">>,
     <<"m", "u", "s", "t">>, <<"m", "i", "d", "d", "l", "e", "w", "a", "r", "e">>, <<"i", "n", "t", "e", "g", "r", "a", "t", "i", "o", "n">>,
     <<"u", "n", "i", "t">>, <<"e", "2", "e">>}

\* ConflictAnalyzer.extract_scope(command)
extract_scope(command) ==
    LET command_lower == lower(command)
        files == findall_any(command_lower, FileOps)
        modules == (findall_any(command_lower, ModuleOps)
                        \cup findall_words(command_lower, 1)) \ NonModuleWords
        directories == findall_any(command_lower, DirectoryOps)
    IN  [files |-> files,
         modules |-> {x \in modules : Len(x) > 1},
         directories |-> directories,
         estimated_scope |->
            IF files # {} THEN "file"
            ELSE IF directories # {} THEN "directory"
            ELSE IF modules # {} THEN "module"
            ELSE IF \E w \in {<<"a", "l", "l">>, <<"p", "r", "o", "j", "e", "c", "t">>, <<"e", "v", "e", "r", "y", "t", "h", "i", "n", "g">>} :
                        contains(command_lower, w)
                 THEN "project"
            ELSE "unknown"]

(***************************************************************************)
(* queue_manager.py: QueueManager                                          *)
(*                                                                         *)
(* Every operation loads the whole of tasks.json (and history.json where   *)
(* it needs it), works on the loaded list and writes the whole file back.  *)
(* json.load raises JSONDecodeError on a file that is not JSON.            *)
(***************************************************************************)
\* largest number of tasks created (Task.create) in one behaviour
MaxAdds == 2

\* the commands handed to add and add_with_resolution: "fix auth.ts",
\* "work in src/" and "work in src/auth/"
Commands ==
    {<<"f", "i", "x", " ", "a", "u", "t", "h", ".", "t", "s">>,
     <<"w", "o", "r", "k", " ", "i", "n", " ", "s", "r", "c", "/">>,
     <<"w", "o", "r", "k", " ", "i", "n", " ", "s", "r", "c", "/", "a", "u", "t", "h", "/">>}

\* asdict(scope), the dict that Task.create stores
scope_dict(scope) ==
    [EmptyScope EXCEPT !.files = scope.files, !.modules = scope.modules,
                       !.directories = scope.directories]

\* asdict(ConflictAnalyzer.extract_scope(command)) for the three commands,
\* written out: "auth.ts" and "auth" for the first, "src/" for the second,
\* "src/auth/" for the third
CommandScopes ==
    [command \in Commands |->
        IF command[1] = "f"
        THEN [EmptyScope EXCEPT
                !.files = {<<"a", "u", "t", "h", ".", "t", "s">>},
                !.modules = {<<"a", "u", "t", "h">>}]
        ELSE IF Len(command) = Len(DirSrc) + 8
        THEN [EmptyScope EXCEPT !.directories = {DirSrc}]
        ELSE [EmptyScope EXCEPT !.directories = {DirSrcAuth}]]

\* the table holds what extract_scope computes
CommandScopesComputed ==
    \A command \in Commands :
        CommandScopes[command] = scope_dict(extract_scope(command))

\* Task.create: a fresh id, status queued, the time of creation
create(command, priority, depends_on) ==
    Task(TaskIds[clock + 1], QUEUED, priority, clock + 1, depends_on,
         CommandScopes[command])

\* the ids a caller can name: those of the tasks created so far and one that
\* was never created
KnownIds == {TaskIds[i] : i \in 1..clock} \cup {AbsentId}

\* the position in the list of the first task with this id (0: none)
index_of(task_list, task_id) ==
    IF task_id \in task_ids(task_list)
    THEN CHOOSE i \in 1..Len(task_list) :
            /\ task_list[i].id = task_id
            /\ \A k \in 1..(i - 1) : task_list[k].id # task_id
    ELSE 0

\* [t for t in tasks if t.status not in statuses]
RECURSIVE without_status(_, _)
without_status(task_list, statuses) ==
    IF task_list = <<>> THEN <<>>
    ELSE (IF Head(task_list).status \in statuses THEN <<>> ELSE <<Head(task_list)>>)
         \o without_status(Tail(task_list), statuses)

\* asdict(task) as appended to a history list: the fields read afterwards
history_entry(task) == [id |-> task.id, status |-> task.status]

\* the result of an operation whose json.load raised
load_error(name) == [op |-> name, raised |-> "JSONDecodeError", error |-> ""]

ResolutionOptions == <<"parallel", "depend", "cancel">>

\* a plausible slip: the task appended and saved whatever detect_conflicts
\* found
add_stores_on_conflict(task, loaded) ==
    LET found == detect_conflicts(task, loaded)
    IN  IF found.raised # "none"
        THEN [save |-> FALSE, tasks |-> loaded,
              result |-> [op |-> "add", raised |-> found.raised, error |-> ""]]
        ELSE [save |-> TRUE, tasks |-> Append(loaded, task),
              result |-> [op |-> "add", raised |-> "none", error |-> "",
                          task_id |-> task.id, conflicts |-> found.value,
                          action_required |-> found.value # <<>>,
                          message |-> IF found.value # <<>>
                                      THEN "CONFLICT_DETECTED" ELSE "TASK_ADDED",
                          options |-> ResolutionOptions,
                          position |-> Len(with_status(Append(loaded, task), QUEUED))]]

\* QueueManager.add, from the loaded list on (lines 430-454)
add(task, loaded) ==
    LET found == detect_conflicts(task, loaded)
    IN  IF found.raised # "none"
        THEN [save |-> FALSE, tasks |-> loaded,
              result |-> [op |-> "add", raised |-> found.raised, error |-> ""]]
        ELSE IF found.value # <<>>
        THEN [save |-> FALSE, tasks |-> loaded,
              result |-> [op |-> "add", raised |-> "none", error |-> "",
                          task_id |-> task.id, conflicts |-> found.value,
                          action_required |-> TRUE,
                          message |-> "CONFLICT_DETECTED",
                          options |-> ResolutionOptions]]
        ELSE [save |-> TRUE, tasks |-> Append(loaded, task),
              result |-> [op |-> "add", raised |-> "none", error |-> "",
                          task_id |-> task.id, conflicts |-> <<>>,
                          action_required |-> FALSE,
                          message |-> "TASK_ADDED",
                          position |-> Len(with_status(Append(loaded, task), QUEUED))]]

\* QueueManager.list (lines 485-502), the value of execution_order
execution_order(task_list, status) ==
    LET shown == IF status = "" THEN task_list ELSE with_status(task_list, status)
        queued == with_status(shown, QUEUED)
        ordered == topological_sort(queued)
    IN  [total |-> Len(shown), queued |-> Len(queued),
         execution_order |-> IF ordered.raised = "none" THEN ordered.value
                             ELSE id_list(queued)]

\* QueueManager.list, from the loaded list on: the try of lines 489-492
\* catches ValueError only, a KeyError of the sort leaves the call
list_tasks(loaded, status) ==
    LET shown == IF status = "" THEN loaded ELSE with_status(loaded, status)
    IN  IF topological_sort(with_status(shown, QUEUED)).raised = "KeyError"
        THEN [op |-> "list", raised |-> "KeyError", error |-> ""]
        ELSE [op |-> "list", raised |-> "none", error |-> "",
              listing |-> execution_order(loaded, status)]

\* QueueManager.cancel, lines 510-524: the tasks and the history after the
\* loop, and the ids cancelled
RECURSIVE cancel_loop(_, _, _, _, _, _)
cancel_loop(task_list, history, cancelled, i, task_id, cancel_all) ==
    IF i > Len(task_list)
    THEN [tasks |-> task_list, history |-> history, cancelled |-> cancelled]
    ELSE IF /\ task_list[i].status = QUEUED
            /\ cancel_all \/ task_list[i].id = task_id
         THEN LET marked == [task_list EXCEPT ![i].status = CANCELLED]
                  logged == [history EXCEPT !.cancelled =
                                Append(@, history_entry(marked[i]))]
              IN  IF cancel_all
                  THEN cancel_loop(marked, logged, Append(cancelled, marked[i].id),
                                   i + 1, task_id, cancel_all)
                  ELSE [tasks |-> marked, history |-> logged,
                        cancelled |-> Append(cancelled, marked[i].id)]
         ELSE cancel_loop(task_list, history, cancelled, i + 1, task_id, cancel_all)

\* a plausible slip: the cancelled tasks removed from the queue, the
\* history saved as it was loaded
cancel_unlogged(loaded, history, task_id, cancel_all) ==
    LET done == cancel_loop(loaded, history, <<>>, 1, task_id, cancel_all)
        kept == without_status(done.tasks, {CANCELLED})
    IN  [tasks |-> kept, history |-> history,
         result |-> [op |-> "cancel", raised |-> "none", error |-> "",
                     requested |-> task_id, cancel_all |-> cancel_all,
                     cancelled |-> done.cancelled,
                     remaining |-> Len(with_status(kept, QUEUED))]]

\* QueueManager.cancel, from the loaded files on; requested and cancel_all
\* keep the arguments of the call next to the dict that is returned
cancel(loaded, history, task_id, cancel_all) ==
    LET done == cancel_loop(loaded, history, <<>>, 1, task_id, cancel_all)
        kept == without_status(done.tasks, {CANCELLED})
    IN  [tasks |-> kept, history |-> done.history,
         result |-> [op |-> "cancel", raised |-> "none", error |-> "",
                     requested |-> task_id, cancel_all |-> cancel_all,
                     cancelled |-> done.cancelled,
                     remaining |-> Len(with_status(kept, QUEUED))]]

\* QueueManager.get_next, from the loaded list on
get_next(loaded) ==
    LET found == get_next_executable(loaded)
    IN  IF found.raised # "none"
        THEN [op |-> "get_next", raised |-> found.raised, error |-> ""]
        ELSE IF found.found
        THEN [op |-> "get_next", raised |-> "none", error |-> "",
              has_next |-> TRUE, task_id |-> found.id,
              remaining |-> Len(with_status(loaded, QUEUED)) - 1]
        ELSE [op |-> "get_next", raised |-> "none", error |-> "",
              has_next |-> FALSE, task_id |-> ""]

\* QueueManager.start, from the loaded list on
start(loaded, task_id) ==
    LET i == index_of(loaded, task_id)
    IN  IF i = 0
        THEN [save |-> FALSE, tasks |-> loaded,
              result |-> [op |-> "start", raised |-> "none",
                          error |-> "not found", task_id |-> task_id]]
        ELSE [save |-> TRUE, tasks |-> [loaded EXCEPT ![i].status = RUNNING],
              result |-> [op |-> "start", raised |-> "none", error |-> "",
                          task_id |-> task_id, started |-> task_id]]

\* a plausible slip: the failed status left out of the filter of line 597
complete_mark_keeps_failed(loaded, history, task_id, success) ==
    LET i == index_of(loaded, task_id)
        marked == IF i = 0 THEN loaded
                  ELSE [loaded EXCEPT ![i].status =
                            IF success THEN COMPLETED ELSE FAILED]
        logged == IF i = 0 THEN history
                  ELSE IF success
                  THEN [history EXCEPT !.completed =
                            Append(@, history_entry(marked[i]))]
                  ELSE [history EXCEPT !.failed =
                            Append(@, history_entry(marked[i]))]
    IN  [active_tasks |-> without_status(marked, {COMPLETED, CANCELLED}),
         history |-> logged]

\* QueueManager.complete, lines 574-604: the task marked and logged, the
\* finished tasks removed from the active list
complete_mark(loaded, history, task_id, success) ==
    LET i == index_of(loaded, task_id)
        marked == IF i = 0 THEN loaded
                  ELSE [loaded EXCEPT ![i].status =
                            IF success THEN COMPLETED ELSE FAILED]
        logged == IF i = 0 THEN history
                  ELSE IF success
                  THEN [history EXCEPT !.completed =
                            Append(@, history_entry(marked[i]))]
                  ELSE [history EXCEPT !.failed =
                            Append(@, history_entry(marked[i]))]
    IN  [active_tasks |-> without_status(marked, {COMPLETED, FAILED, CANCELLED}),
         history |-> logged]

\* QueueManager.complete, lines 606-613: the next task
complete_next(active_tasks, task_id, success) ==
    IF success THEN get_next_executable(active_tasks)
    ELSE LET independent_ids == get_independent_tasks(active_tasks, task_id).value
         IN  IF independent_ids # <<>>
             THEN [raised |-> "none", found |-> TRUE, id |-> independent_ids[1]]
             ELSE [raised |-> "none", found |-> FALSE, id |-> ""]

\* QueueManager.complete, from the loaded files on; the files are written
\* before the next task is looked for
complete(loaded, history, task_id, success) ==
    LET done == complete_mark(loaded, history, task_id, success)
        following == complete_next(done.active_tasks, task_id, success)
    IN  [tasks |-> done.active_tasks, history |-> done.history,
         result |->
            IF following.raised # "none"
            THEN [op |-> "complete", raised |-> following.raised, error |-> ""]
            ELSE [op |-> "complete", raised |-> "none", error |-> "",
                  task_id |-> task_id,
                  status |-> IF success THEN "completed" ELSE "failed",
                  has_next |-> following.found,
                  next_task |-> following.id,
                  queue_empty |-> done.active_tasks = <<>>,
                  blocked_count |-> Len(with_status(done.active_tasks, QUEUED))]]

\* QueueManager.move: the priority a position stands for
new_priority(old, position) ==
    IF position = "first" THEN "critical"
    ELSE IF position = "last" THEN "low"
    ELSE IF position \in {"critical", "high", "normal", "low"} THEN position
    ELSE old

\* QueueManager.move, from the loaded list on
move(loaded, task_id, position) ==
    LET i == index_of(loaded, task_id)
    IN  IF i = 0
        THEN [save |-> FALSE, tasks |-> loaded,
              result |-> [op |-> "move", raised |-> "none",
                          error |-> "not found", task_id |-> task_id]]
        ELSE LET priority == new_priority(loaded[i].priority, position)
             IN  [save |-> TRUE, tasks |-> [loaded EXCEPT ![i].priority = priority],
                  result |-> [op |-> "move", raised |-> "none", error |-> "",
                              task_id |-> task_id, moved |-> task_id,
                              new_priority |-> priority]]

\* QueueManager.analyze_conflict, from the loaded list on
analyze_conflict(loaded, task_id_a, task_id_b) ==
    IF index_of(loaded, task_id_a) = 0
    THEN [op |-> "analyze_conflict", raised |-> "none", error |-> "not found",
          task_id |-> task_id_a, task_a |-> task_id_a, task_b |-> task_id_b]
    ELSE IF index_of(loaded, task_id_b) = 0
    THEN [op |-> "analyze_conflict", raised |-> "none", error |-> "not found",
          task_id |-> task_id_b, task_a |-> task_id_a, task_b |-> task_id_b]
    ELSE LET lvl == analyze_conflict_level(task_map(loaded, task_id_a),
                                           task_map(loaded, task_id_b))
         IN  [op |-> "analyze_conflict", raised |-> "none", error |-> "",
              task_a |-> task_id_a, task_b |-> task_id_b,
              conflict_value |-> lvl, can_parallel |-> lvl # HARD]

(***************************************************************************)
(* Spec: one QueueManager used by one process at a time                    *)
(***************************************************************************)
\* the priorities given to add, the positions given to move, the status
\* filters given to list
AddPriorities == {"normal"}
MovePositions == {"first", "sideways"}
ListFilters == {"", QUEUED}

\* the depends_on a caller can give: ids of tasks created before, or an id
\* that was never created
DependsOnChoices == UpTo(KnownIds, MaxDeps)

\* cancel <task_id> and cancel --all
CancelRequests ==
    {[task_id |-> t, cancel_all |-> FALSE] : t \in KnownIds}
        \cup {[task_id |-> "", cancel_all |-> TRUE]}

Init == AnalysisIdle /\ StoreIdle

\* what an operation that only reads leaves alone
ReadOnly == UNCHANGED <<tasks_file, history_file, context_file, flag_file, clock, procs,
                   claude_dir>>

\* the write of tasks.json by _save_tasks
saved(task_list) == [valid |-> TRUE, tasks |-> task_list]

\* QueueManager.add(command, priority, depends_on)
Add ==
    /\ clock < MaxAdds
    /\ \E command \in Commands, priority \in AddPriorities,
          depends_on \in DependsOnChoices :
        IF ~tasks_file.valid
        THEN last_result' = load_error("add") /\ UNCHANGED tasks_file
        ELSE LET done == add(create(command, priority, depends_on), tasks_file.tasks)
             IN  /\ tasks_file' = IF done.save THEN saved(done.tasks) ELSE tasks_file
                 /\ last_result' = done.result
    /\ clock' = clock + 1
    /\ UNCHANGED <<history_file, context_file, flag_file, procs,
                   claude_dir>>
    /\ UNCHANGED analysis_vars

\* QueueManager.add_with_resolution(command, resolution, conflict_task_ids)
AddWithResolution ==
    /\ clock < MaxAdds
    /\ \E command \in Commands, resolution \in {"parallel", "depend"},
          conflict_task_ids \in DependsOnChoices :
        LET depends_on == IF resolution = "depend" THEN conflict_task_ids ELSE {}
            task == create(command, "normal", depends_on)
        IN  IF ~tasks_file.valid
            THEN last_result' = load_error("add_with_resolution")
                 /\ UNCHANGED tasks_file
            ELSE /\ tasks_file' = saved(Append(tasks_file.tasks, task))
                 /\ last_result' =
                        [op |-> "add_with_resolution", raised |-> "none",
                         error |-> "", task_id |-> task.id,
                         message |-> "TASK_ADDED",
                         resolution_applied |-> resolution]
    /\ clock' = clock + 1
    /\ UNCHANGED <<history_file, context_file, flag_file, procs,
                   claude_dir>>
    /\ UNCHANGED analysis_vars

\* QueueManager.list(status)
List ==
    /\ \E status \in ListFilters :
        last_result' =
            IF ~tasks_file.valid THEN load_error("list")
            ELSE list_tasks(tasks_file.tasks, status)
    /\ ReadOnly
    /\ UNCHANGED analysis_vars

\* QueueManager.cancel(task_id) and QueueManager.cancel(cancel_all=True)
Cancel ==
    /\ \E request \in CancelRequests :
        IF ~tasks_file.valid \/ ~history_file.valid
        THEN last_result' = load_error("cancel")
             /\ UNCHANGED <<tasks_file, history_file>>
        ELSE LET done == cancel(tasks_file.tasks, history_file,
                                request.task_id, request.cancel_all)
             IN  /\ tasks_file' = saved(done.tasks)
                 /\ history_file' = done.history
                 /\ last_result' = done.result
    /\ UNCHANGED <<context_file, flag_file, clock, procs,
                   claude_dir>>
    /\ UNCHANGED analysis_vars

\* QueueManager.get_next()
GetNext ==
    /\ last_result' = IF ~tasks_file.valid THEN load_error("get_next")
                       ELSE get_next(tasks_file.tasks)
    /\ ReadOnly
    /\ UNCHANGED analysis_vars

\* QueueManager.start(task_id)
Start ==
    /\ \E task_id \in KnownIds :
        IF ~tasks_file.valid
        THEN last_result' = load_error("start") /\ UNCHANGED tasks_file
        ELSE LET done == start(tasks_file.tasks, task_id)
             IN  /\ tasks_file' = IF done.save THEN saved(done.tasks) ELSE tasks_file
                 /\ last_result' = done.result
    /\ UNCHANGED <<history_file, context_file, flag_file, clock, procs,
                   claude_dir>>
    /\ UNCHANGED analysis_vars

\* QueueManager.complete(task_id, success)
Complete ==
    /\ \E task_id \in KnownIds, success \in BOOLEAN :
        IF ~tasks_file.valid \/ ~history_file.valid
        THEN last_result' = load_error("complete")
             /\ UNCHANGED <<tasks_file, history_file>>
        ELSE LET done == complete(tasks_file.tasks, history_file, task_id, success)
             IN  /\ tasks_file' = saved(done.tasks)
                 /\ history_file' = done.history
                 /\ last_result' = done.result
    /\ UNCHANGED <<context_file, flag_file, clock, procs,
                   claude_dir>>
    /\ UNCHANGED analysis_vars

\* QueueManager.move(task_id, position)
Move ==
    /\ \E task_id \in KnownIds, position \in MovePositions :
        IF ~tasks_file.valid
        THEN last_result' = load_error("move") /\ UNCHANGED tasks_file
        ELSE LET done == move(tasks_file.tasks, task_id, position)
             IN  /\ tasks_file' = IF done.save THEN saved(done.tasks) ELSE tasks_file
                 /\ last_result' = done.result
    /\ UNCHANGED <<history_file, context_file, flag_file, clock, procs,
                   claude_dir>>
    /\ UNCHANGED analysis_vars

\* QueueManager.analyze_conflict(task_id_a, task_id_b)
AnalyzeConflict ==
    /\ \E task_id_a \in KnownIds, task_id_b \in KnownIds :
        last_result' =
            IF ~tasks_file.valid THEN load_error("analyze_conflict")
            ELSE analyze_conflict(tasks_file.tasks, task_id_a, task_id_b)
    /\ ReadOnly
    /\ UNCHANGED analysis_vars

Next ==
    \/ Add
    \/ AddWithResolution
    \/ List
    \/ Cancel
    \/ GetNext
    \/ Start
    \/ Complete
    \/ Move
    \/ AnalyzeConflict

Spec == Init /\ [][Next]_vars

(***************************************************************************)
(* Claims about the store (Spec)                                           *)
(***************************************************************************)
ActiveIds == task_ids(tasks_file.tasks)

\* the ids recorded in a history list
RecordedIds(entries) == {entries[k].id : k \in 1..Len(entries)}

\* every record of the list carries this status
AllOfStatus(entries, status) ==
    \A k \in 1..Len(entries) : entries[k].status = status

IsPrefix(shorter, longer) ==
    /\ Len(shorter) <= Len(longer)
    /\ SubSeq(longer, 1, Len(shorter)) = shorter

\* C16, the state: the active file holds queued and running tasks only, and
\* each history list holds records of its own status, of tasks that are not
\* in the active file.
C16_ActiveStatuses ==
    /\ \A i \in 1..Len(tasks_file.tasks) :
            tasks_file.tasks[i].status \in {QUEUED, RUNNING}
    /\ AllOfStatus(history_file.completed, COMPLETED)
    /\ AllOfStatus(history_file.failed, FAILED)
    /\ AllOfStatus(history_file.cancelled, CANCELLED)
    /\ ActiveIds \cap ( RecordedIds(history_file.completed)
                        \cup RecordedIds(history_file.failed)
                        \cup RecordedIds(history_file.cancelled) ) = {}

\* C16, the step: a task that leaves the active file does so by complete or
\* cancel and gets a record in the history list named after what happened
\* to it, and no record is ever taken out of a history list.
C16_LeavesWithRecord ==
    /\ \A tid \in ActiveIds \ task_ids(tasks_file'.tasks) :
            \/ /\ last_result'.op = "complete"
               /\ last_result'.status = "completed"
               /\ tid \in RecordedIds(history_file'.completed)
            \/ /\ last_result'.op = "complete"
               /\ last_result'.status = "failed"
               /\ tid \in RecordedIds(history_file'.failed)
            \/ /\ last_result'.op = "cancel"
               /\ tid \in RecordedIds(history_file'.cancelled)
    /\ IsPrefix(history_file.completed, history_file'.completed)
    /\ IsPrefix(history_file.failed, history_file'.failed)
    /\ IsPrefix(history_file.cancelled, history_file'.cancelled)

\* C16: after any sequence of add, add_with_resolution, start, complete,
\* cancel and move, every task of the active file is queued or running, and
\* a task that was completed, failed or cancelled is absent from the active
\* file and has a record in the history list of that name.
C16_ActiveAndHistory == []C16_ActiveStatuses /\ [][C16_LeavesWithRecord]_vars

\* C16 witness: one task failed while running and one was cancelled; the
\* active file is empty and each has its record.
C16_Witness ==
    /\ tasks_file.tasks = <<>>
    /\ Len(history_file.failed) = 1
    /\ Len(history_file.cancelled) = 1
    /\ last_result.op = "complete"
    /\ last_result.raised = "none"
    /\ last_result.status = "failed"

\* the operation that has just returned was called with a task id that was
\* not in the store
CalledWithMissingId ==
    \/ /\ last_result'.op \in {"start", "complete", "move"}
       /\ last_result'.task_id \notin ActiveIds
    \/ /\ last_result'.op = "cancel"
       /\ ~last_result'.cancel_all
       /\ last_result'.requested \notin ActiveIds
    \/ /\ last_result'.op = "analyze_conflict"
       /\ \/ last_result'.task_a \notin ActiveIds
          \/ last_result'.task_b \notin ActiveIds

\* C17, the step: the call returns without raising, with an error field that
\* reports the task as not found.
C17_MissingIdStep ==
    CalledWithMissingId
        => /\ last_result'.raised = "none"
           /\ last_result'.error = "not found"

\* C17: start, complete, cancel, move and analyze_conflict, called with a
\* task id that is not in the store, return a result with an error field
\* that reports the task as not found and do not raise; complete reports
\* neither completed nor failed for such a task.
C17_NotFoundReported == [][C17_MissingIdStep]_vars

\* two scopes share a file or a module, or a directory of one is a prefix
\* of a directory of the other
ScopesOverlap(s1, s2) ==
    \/ s1.files \cap s2.files # {}
    \/ s1.modules \cap s2.modules # {}
    \/ \E d1 \in s1.directories, d2 \in s2.directories :
            startswith(d1, d2) \/ startswith(d2, d1)

\* the queued and running tasks of a list whose scope overlaps the task's
ConflictingIds(task, task_list) ==
    {task_list[i].id : i \in
        {k \in 1..Len(task_list) :
            /\ task_list[k].status \in {QUEUED, RUNNING}
            /\ ScopesOverlap(task.scope, task_list[k].scope)}}

\* C19, the step: after an add that returned, the new task is in the file
\* only if no queued or running task of the file overlapped it, and then it
\* was appended; it is left out only with conflicts reported; with conflicts
\* reported the file is as before and the result carries CONFLICT_DETECTED,
\* action_required and the three options, each conflict naming a queued or
\* running task of the file.
C19_AddStep ==
    (last_result'.op = "add" /\ last_result'.raised = "none") =>
        LET new_id == last_result'.task_id
            stored == new_id \in task_ids(tasks_file'.tasks)
            reported == {last_result'.conflicts[i].task_id :
                            i \in 1..Len(last_result'.conflicts)}
        IN  /\ new_id \notin task_ids(tasks_file.tasks)
            /\ stored =>
                LET task == task_map(tasks_file'.tasks, new_id)
                IN  /\ ConflictingIds(task, tasks_file.tasks) = {}
                    /\ tasks_file'.tasks = Append(tasks_file.tasks, task)
                    /\ last_result'.message = "TASK_ADDED"
                    /\ ~last_result'.action_required
            /\ ~stored => last_result'.conflicts # <<>>
            /\ last_result'.conflicts # <<>> =>
                /\ tasks_file' = tasks_file
                /\ last_result'.message = "CONFLICT_DETECTED"
                /\ last_result'.action_required
                /\ last_result'.options = <<"parallel", "depend", "cancel">>
                /\ reported \subseteq
                        task_ids(with_status(tasks_file.tasks, QUEUED))
                            \cup task_ids(with_status(tasks_file.tasks, RUNNING))

\* C19: QueueManager.add stores the new task only when detect_conflicts
\* finds no conflict with a queued or running task; when a conflict is
\* found the task file is left unchanged and the result carries message
\* CONFLICT_DETECTED, action_required true and the resolution options.
C19_AddStoresWithoutConflict == [][C19_AddStep]_vars

\* C19 witness: the second add has just been refused for a conflict with
\* the running first task, which is alone in the file.
C19_Witness ==
    /\ last_result.op = "add"
    /\ last_result.raised = "none"
    /\ last_result.message = "CONFLICT_DETECTED"
    /\ last_result.task_id = "t2"
    /\ Len(last_result.conflicts) = 1
    /\ last_result.conflicts[1].task_id = "t1"
    /\ Len(tasks_file.tasks) = 1
    /\ tasks_file.tasks[1].id = "t1"
    /\ tasks_file.tasks[1].status = RUNNING

(***************************************************************************)
(* SpecFiles: the operations that read the four files, started on files    *)
(* that hold JSON or text that is not JSON                                 *)
(*   src/src/scripts/session_context.py  (SessionContextManager)           *)
(*   src/src/scripts/auto_continue.py    (AutoContinuationManager)         *)
(***************************************************************************)
\* the session contexts handed to SessionContextManager.save: nothing
\* tracked, and the context after add_file("auth.ts")
SessionContexts ==
    {[files |-> {}, modules |-> {}, directories |-> {}],
     [files |-> {"auth.ts"}, modules |-> {"auth"}, directories |-> {"./"}]}

\* SessionContextManager.save(context): the file as written
save(context) == [state |-> "valid", context |-> context]

\* SessionContextManager.load(): None when the file is absent or not JSON
load(file) ==
    IF file.state = "valid"
    THEN [op |-> "load", raised |-> "none", error |-> "",
          found |-> TRUE, context |-> file.context]
    ELSE [op |-> "load", raised |-> "none", error |-> "", found |-> FALSE]

\* AutoContinuationManager.set_continuation(task_info): the file as written
set_continuation(task_id) ==
    [state |-> "valid", task_id |-> task_id, created_at |-> clock]

\* a plausible slip: the age of the flag not looked at
get_continuation_any_age(file, expired) ==
    IF file.state = "absent"
    THEN [file |-> file,
          result |-> [op |-> "get_continuation", raised |-> "none",
                      error |-> "", found |-> FALSE]]
    ELSE IF file.state = "corrupt"
    THEN [file |-> AbsentFile,
          result |-> [op |-> "get_continuation", raised |-> "none",
                      error |-> "", found |-> FALSE]]
    ELSE [file |-> file,
          result |-> [op |-> "get_continuation", raised |-> "none",
                      error |-> "", found |-> TRUE, task_id |-> file.task_id]]

\* AutoContinuationManager.get_continuation(): the flag file afterwards and
\* the value returned; expired says whether the age of the flag exceeds
\* ttl_seconds at the time of the call
get_continuation(file, expired) ==
    IF file.state = "absent"
    THEN [file |-> file,
          result |-> [op |-> "get_continuation", raised |-> "none",
                      error |-> "", found |-> FALSE]]
    ELSE IF file.state = "corrupt" \/ expired
    THEN [file |-> AbsentFile,
          result |-> [op |-> "get_continuation", raised |-> "none",
                      error |-> "", found |-> FALSE]]
    ELSE [file |-> file,
          result |-> [op |-> "get_continuation", raised |-> "none",
                      error |-> "", found |-> TRUE, task_id |-> file.task_id]]

\* _ensure_files writes tasks.json and history.json only when they do not
\* exist: a file that is there is used as it is, JSON or not
InitFiles ==
    /\ AnalysisIdle
    /\ tasks_file \in {EmptyTasksFile, CorruptTasksFile}
    /\ history_file \in {EmptyHistoryFile, CorruptHistoryFile}
    /\ context_file \in {AbsentFile, CorruptFile}
    /\ flag_file \in {AbsentFile, CorruptFile}
    /\ last_result = NoResult
    /\ clock = 0
    /\ procs = NoProcs
    /\ claude_dir = NoClaudeDir

\* SessionContextManager.save(context)
Save ==
    /\ \E context \in SessionContexts : context_file' = save(context)
    /\ last_result' = [op |-> "save", raised |-> "none", error |-> ""]
    /\ UNCHANGED <<tasks_file, history_file, flag_file, clock, procs,
                   claude_dir>>
    /\ UNCHANGED analysis_vars

\* SessionContextManager.load()
Load ==
    /\ last_result' = load(context_file)
    /\ ReadOnly
    /\ UNCHANGED analysis_vars

\* AutoContinuationManager.set_continuation(task_info)
SetContinuation ==
    /\ \E task_id \in KnownIds : flag_file' = set_continuation(task_id)
    /\ last_result' = [op |-> "set_continuation", raised |-> "none", error |-> ""]
    /\ UNCHANGED <<tasks_file, history_file, context_file, clock, procs,
                   claude_dir>>
    /\ UNCHANGED analysis_vars

\* AutoContinuationManager.get_continuation()
GetContinuation ==
    /\ \E expired \in BOOLEAN :
        LET done == get_continuation(flag_file, expired)
        IN  /\ flag_file' = done.file
            /\ last_result' = done.result
    /\ UNCHANGED <<tasks_file, history_file, context_file, clock, procs,
                   claude_dir>>
    /\ UNCHANGED analysis_vars

NextFiles ==
    \/ List
    \/ Add
    \/ GetNext
    \/ Cancel
    \/ Complete
    \/ Save
    \/ Load
    \/ SetContinuation
    \/ GetContinuation

SpecFiles == InitFiles /\ [][NextFiles]_vars

(***************************************************************************)
(* Claims about damaged files (SpecFiles)                                  *)
(***************************************************************************)
\* the operation that has just finished read a file that was not JSON
ReadCorruptFile ==
    \/ /\ last_result'.op \in {"list", "add", "get_next", "cancel", "complete"}
       /\ ~tasks_file.valid
    \/ /\ last_result'.op \in {"cancel", "complete"}
       /\ ~history_file.valid
    \/ /\ last_result'.op = "load"
       /\ context_file.state = "corrupt"
    \/ /\ last_result'.op = "get_continuation"
       /\ flag_file.state = "corrupt"

\* what the operation returns on an empty task file or an absent context
\* or flag file
AsOnEmptyFile ==
    /\ last_result'.op = "list" => last_result'.listing = <<>>
    /\ last_result'.op = "get_next" => ~last_result'.has_next
    /\ last_result'.op = "add" => last_result'.message = "TASK_ADDED"
    /\ (last_result'.op = "cancel" /\ ~tasks_file.valid)
            => last_result'.cancelled = <<>>
    /\ last_result'.op \in {"load", "get_continuation"} => ~last_result'.found

\* C18, the step: an operation that reads a file that is not JSON does not
\* raise and returns what it returns on an empty or absent file.
C18_CorruptReadStep ==
    ReadCorruptFile
        => /\ last_result'.raised = "none"
           /\ AsOnEmptyFile

\* C18: when tasks.json, history.json, the session-context file or the
\* continuation flag file is not JSON, every operation that reads it (list,
\* add, get_next, cancel, complete, SessionContextManager.load,
\* get_continuation) behaves as on an empty or absent file and does not
\* raise.
C18_CorruptFileAsEmpty == [][C18_CorruptReadStep]_vars

\* the part of C18 that holds: load and get_continuation return None on a
\* file that is not JSON, and get_continuation removes the file
C18_ContextReadersRecover ==
    [][(last_result'.op \in {"load", "get_continuation"} /\ ReadCorruptFile)
         => /\ last_result'.raised = "none"
            /\ ~last_result'.found
            /\ last_result'.op = "get_continuation" => flag_file' = AbsentFile]_vars

(***************************************************************************)
(* SpecRace: two invocations of add against the same tasks.json.  Each is  *)
(* _load_tasks (a read of the whole file) followed, when no conflict was   *)
(* found, by _save_tasks (a write of the whole file); no lock is taken     *)
(* between the two, so the steps of the two invocations interleave freely. *)
(***************************************************************************)
\* the two invocations
Procs == {1, 2}

\* an invocation that has not read the file yet
NotStarted == [pc |-> "start"]

\* lines 414-428: the task is created and the whole file is read
add_load(task, file) == [pc |-> "loaded", task |-> task, loaded |-> file.tasks]

\* a plausible slip, and what a lock around add would give: the list is read
\* again at the time of the write
add_save_reread(proc, file) ==
    LET done == add(proc.task, file.tasks)
    IN  [file |-> IF done.save THEN saved(done.tasks) ELSE file,
         result |-> done.result]

\* lines 430-454: conflicts are looked for in the list that was read, and
\* the whole file is written from that list with the task appended
add_save(proc, file) ==
    LET done == add(proc.task, proc.loaded)
    IN  [file |-> IF done.save THEN saved(done.tasks) ELSE file,
         result |-> done.result]

InitRace ==
    /\ AnalysisIdle
    /\ tasks_file = EmptyTasksFile
    /\ history_file = EmptyHistoryFile
    /\ context_file = AbsentFile
    /\ flag_file = AbsentFile
    /\ last_result = NoResult
    /\ clock = 0
    /\ procs = [p \in Procs |-> NotStarted]
    /\ claude_dir = NoClaudeDir

\* add, up to and including _load_tasks
AddLoad(p) ==
    /\ procs[p].pc = "start"
    /\ \E command \in Commands, priority \in AddPriorities,
          depends_on \in DependsOnChoices :
        procs' = [procs EXCEPT
                    ![p] = add_load(create(command, priority, depends_on),
                                    tasks_file)]
    /\ clock' = clock + 1
    /\ UNCHANGED <<tasks_file, history_file, context_file, flag_file, last_result,
                   claude_dir>>
    /\ UNCHANGED analysis_vars

\* add, from detect_conflicts to the return
AddSave(p) ==
    /\ procs[p].pc = "loaded"
    /\ LET done == add_save(procs[p], tasks_file)
       IN  /\ tasks_file' = done.file
           /\ last_result' = done.result
           /\ procs' = [procs EXCEPT
                          ![p] = [pc |-> "done", task |-> procs[p].task,
                                  loaded |-> procs[p].loaded,
                                  result |-> done.result]]
    /\ UNCHANGED <<history_file, context_file, flag_file, clock,
                   claude_dir>>
    /\ UNCHANGED analysis_vars

NextRace ==
    \/ \E p \in Procs : AddLoad(p)
    \/ \E p \in Procs : AddSave(p)

SpecRace == InitRace /\ [][NextRace]_vars

(***************************************************************************)
(* Claims about concurrent adds (SpecRace)                                 *)
(***************************************************************************)
\* the invocation has returned TASK_ADDED
Added(p) ==
    /\ procs[p].pc = "done"
    /\ procs[p].result.raised = "none"
    /\ procs[p].result.message = "TASK_ADDED"

\* the invocation was the last to return
LastWriter(p) ==
    /\ procs[p].pc = "done"
    /\ last_result.op = "add"
    /\ last_result.raised = "none"
    /\ last_result.task_id = procs[p].task.id

\* C20: when two adds run against the same task file, each a read of the
\* whole file followed by a write of the whole file with no lock, and both
\* return TASK_ADDED, the file after the last write is the last writer's
\* read with its own task appended: if the last writer read before the
\* other wrote, the other's task is not in the file although its add
\* reported success (last writer wins, the other update is lost).
C20_LastWriterWins ==
    \A p \in Procs, q \in Procs :
        (p # q /\ Added(p) /\ Added(q) /\ LastWriter(p)) =>
            /\ tasks_file.tasks = Append(procs[p].loaded, procs[p].task)
            /\ procs[q].task.id \notin task_ids(procs[p].loaded)
                    => procs[q].task.id \notin ActiveIds

\* C20 witness: both invocations read the empty file before either wrote,
\* both returned TASK_ADDED, and the file holds one task, the second
\* invocation's: the first invocation's task is lost.
C20_Witness ==
    /\ Added(1)
    /\ Added(2)
    /\ procs[1].loaded = <<>>
    /\ procs[2].loaded = <<>>
    /\ LastWriter(2)
    /\ ActiveIds = {procs[2].task.id}
    /\ procs[1].task.id \notin ActiveIds

(***************************************************************************)
(* session_context.py: SessionContext and ContextMatcher.  File paths and  *)
(* module names are character sequences, so that Path.name, Path.stem,     *)
(* Path.parent, str.lower, str.startswith and the substring test are       *)
(* computed.  An overlap score is an integer counted in 1/60, a match      *)
(* score an integer counted in 1/6000: with at most MaxMatchSet entries in *)
(* a scope list every quotient of the code is exact.                       *)
(***************************************************************************)
\* largest number of entries in one list of a matched task's scope
MaxMatchSet == 2

\* the position of the last c in str, 0 when there is none
last_index(str, c) ==
    IF \E i \in 1..Len(str) : str[i] = c
    THEN CHOOSE i \in 1..Len(str) :
            str[i] = c /\ \A k \in (i + 1)..Len(str) : str[k] # c
    ELSE 0

\* Path(p).name, for a path that does not end with "/"
path_name(p) ==
    IF p = <<".">> THEN <<>> ELSE SubSeq(p, last_index(p, "/") + 1, Len(p))

\* Path(p).stem
path_stem(p) ==
    LET name == path_name(p)
        dot == last_index(name, ".")
    IN  IF dot > 1 /\ dot < Len(name) THEN SubSeq(name, 1, dot - 1) ELSE name

\* str(Path(p).parent)
path_parent(p) ==
    LET slash == last_index(p, "/")
    IN  IF slash = 0 THEN <<".">>
        ELSE IF slash = 1 THEN <<"/">>
        ELSE SubSeq(p, 1, slash - 1)

\* d if d.endswith('/') else d + '/'
with_slash(d) == IF d # <<>> /\ d[Len(d)] = "/" THEN d ELSE d \o <<"/">>

\* SessionContext.create()
NewContext == [files |-> {}, modules |-> {}, directories |-> {}]

\* SessionContext.add_file(file_path)
add_file(context, file_path) ==
    IF file_path = <<>> THEN context
    ELSE
        LET module_name == path_stem(file_path)
            parent == path_parent(file_path)
            parent_name == path_name(parent)
        IN  [files |-> context.files \cup {file_path},
             modules |-> context.modules
                \cup (IF Len(module_name) > 1 THEN {module_name} ELSE {})
                \cup (IF Len(parent_name) > 1 /\ parent_name # <<".", ".">>
                      THEN {parent_name} ELSE {}),
             directories |-> context.directories \cup {with_slash(parent)}]

\* SessionContext.has_work()
has_work(context) ==
    context.files # {} \/ context.modules # {} \/ context.directories # {}

\* ContextMatcher._calculate_file_overlap, in 1/60
_calculate_file_overlap(task_scope, context) ==
    LET task_files == task_scope.files
        exact_matches == task_files \cap context.files
        filename_matches ==
            {path_name(f) : f \in task_files}
                \cap {path_name(f) : f \in context.files}
    IN  IF task_files = {} THEN 0
        ELSE IF exact_matches # {}
        THEN (Cardinality(exact_matches) * 60) \div Cardinality(task_files)
        ELSE IF filename_matches # {}
        THEN (Cardinality(filename_matches) * 48) \div Cardinality(task_files)
        ELSE 0

\* ContextMatcher._calculate_module_overlap, in 1/60
_calculate_module_overlap(task_scope, context) ==
    LET task_modules == task_scope.modules
        context_modules_lower == {lower(x) : x \in context.modules}
        task_modules_lower == {lower(x) : x \in task_modules}
        exact_matches == task_modules_lower \cap context_modules_lower
        partial_pairs ==
            {pair \in task_modules_lower \X context_modules_lower :
                contains(pair[2], pair[1]) \/ contains(pair[1], pair[2])}
        partial_score ==
            (Cardinality(partial_pairs) * 30) \div Cardinality(task_modules)
    IN  IF task_modules = {} THEN 0
        ELSE IF exact_matches # {}
        THEN (Cardinality(exact_matches) * 60) \div Cardinality(task_modules)
        ELSE IF partial_score > 60 THEN 60 ELSE partial_score

\* ContextMatcher._calculate_directory_overlap, in 1/60
_calculate_directory_overlap(task_scope, context) ==
    LET task_dirs == task_scope.directories
        task_dirs_normalized == {with_slash(d) : d \in task_dirs}
        overlapping ==
            {td \in task_dirs_normalized :
                \E cd \in context.directories :
                    td = cd \/ startswith(td, cd) \/ startswith(cd, td)}
    IN  IF task_dirs = {} THEN 0
        ELSE (Cardinality(overlapping) * 60) \div Cardinality(task_dirs)

\* max of a non-empty set of integers
max(S) == CHOOSE x \in S : \A y \in S : y <= x

\* a plausible slip: the boost left out, the score is the weighted blend
match_score_unboosted(task_scope, context) ==
    IF ~has_work(context) THEN 0
    ELSE 50 * _calculate_file_overlap(task_scope, context)
            + 35 * _calculate_module_overlap(task_scope, context)
            + 15 * _calculate_directory_overlap(task_scope, context)

\* a plausible slip: the sum of the three overlaps, not capped
match_score_sum(task_scope, context) ==
    100 * (_calculate_file_overlap(task_scope, context)
            + _calculate_module_overlap(task_scope, context)
            + _calculate_directory_overlap(task_scope, context))

\* ContextMatcher.match_score, in 1/6000.  A task's scope dict is never
\* empty (it always carries its five keys), so _extract_task_scope returns it.
match_score(task_scope, context) ==
    IF ~has_work(context) THEN 0
    ELSE
        LET file_overlap == _calculate_file_overlap(task_scope, context)
            module_overlap == _calculate_module_overlap(task_scope, context)
            dir_overlap == _calculate_directory_overlap(task_scope, context)
            weighted_overlap ==
                50 * file_overlap + 35 * module_overlap + 15 * dir_overlap
            max_single == max({file_overlap, module_overlap, dir_overlap})
            boosted == max({weighted_overlap, 80 * max_single})
        IN  IF boosted > 6000 THEN 6000 ELSE boosted

(***************************************************************************)
(* SpecMatch: ContextMatcher.match_score on a task scope and a session     *)
(* context that grows by SessionContext.add_file                           *)
(***************************************************************************)
SrcAuthTs == <<"s", "r", "c", "/", "a", "u", "t", "h", ".", "t", "s">>
SrcUserTs == <<"s", "r", "c", "/", "u", "s", "e", "r", ".", "t", "s">>
LibAuthTs == <<"l", "i", "b", "/", "a", "u", "t", "h", ".", "t", "s">>
LibUserTs == <<"l", "i", "b", "/", "u", "s", "e", "r", ".", "t", "s">>
AuthTs == <<"a", "u", "t", "h", ".", "t", "s">>

\* the files a session writes or edits
TrackedFiles == {SrcAuthTs, SrcUserTs, LibAuthTs, LibUserTs, AuthTs}

\* the scopes of the matched task
MatchScopes ==
    [files : UpTo({SrcAuthTs, SrcUserTs}, MaxMatchSet),
     modules : UpTo({<<"A", "u", "t", "h">>, <<"a", "u", "t", "h", "z">>}, MaxMatchSet),
     directories : UpTo({DirSrc, <<"l", "i", "b">>}, MaxMatchSet)]

InitMatch ==
    /\ tasks = <<>>
    /\ op = "init"
    /\ level = NoLevel
    /\ conflicts = NoConflicts
    /\ order = <<>>
    /\ groups = NoGroups
    /\ sorted = NoSorted
    /\ next_task = NoNext
    /\ independent = NoIndependent
    /\ \E task_scope \in MatchScopes :
        input = [task_scope |-> task_scope, context |-> NewContext,
                 file_path |-> <<>>]
    /\ output = [raised |-> "none", score |-> 0]
    /\ StoreIdle

\* context.add_file(file_path), as update_session_context calls it
AddFile ==
    /\ \E file_path \in TrackedFiles :
        input' = [input EXCEPT !.context = add_file(@, file_path),
                               !.file_path = file_path]
    /\ op' = "add_file"
    /\ UNCHANGED <<tasks, level, conflicts, order, groups, sorted, next_task,
                   independent, output>>
    /\ UNCHANGED store_vars

\* ContextMatcher.match_score(task, context)
MatchScore ==
    /\ output' = [raised |-> "none",
                  score |-> match_score(input.task_scope, input.context)]
    /\ op' = "match_score"
    /\ UNCHANGED <<tasks, level, conflicts, order, groups, sorted, next_task,
                   independent, input>>
    /\ UNCHANGED store_vars

NextMatch == AddFile \/ MatchScore

SpecMatch == InitMatch /\ [][NextMatch]_vars

(***************************************************************************)
(* Claims about match_score (SpecMatch)                                    *)
(***************************************************************************)
\* C22, the step: a file that is one of the task's scope files has just been
\* added to the context, and the score of the task is not lower than before.
C22_AddFileStep ==
    (op' = "add_file" /\ input'.file_path \in input.task_scope.files)
        => match_score(input'.task_scope, input'.context)
                >= match_score(input.task_scope, input.context)

\* C22: with the task held fixed, match_score never decreases when a file
\* that is exactly one of the task's scope files is added to the session
\* context, including when the context matched the task's files only by
\* file name in other directories before.
C22_ExactFileNeverLowers == [][C22_AddFileStep]_vars

\* C23: match_score returns a value between 0 and 1 inclusive (0 and 6000 in
\* 1/6000) for every task and context, and 0 whenever the context has no
\* tracked files, modules or directories.
C23_ScoreRange ==
    op = "match_score"
        => /\ output.score >= 0
           /\ output.score <= 6000
           /\ (input.context.files = {} /\ input.context.modules = {}
                    /\ input.context.directories = {}) => output.score = 0

\* C23 witness: a score of exactly 1, every file, module and directory of
\* the task being matched by the context.
C23_Witness ==
    /\ op = "match_score"
    /\ output.score = 6000
    /\ input.task_scope.files = {SrcAuthTs}
    /\ input.task_scope.modules # {}
    /\ input.task_scope.directories = {DirSrc}
    /\ input.context.files = {SrcAuthTs}

MaxWords == 3

\* the words of the commands: verbs, "in", a one-letter name, a module name,
\* a file name, three @file references, a directory, "all" and "module"
ScopeWords ==
    {<<"f", "i", "x">>,
     <<"a", "d", "d">>,
     <<"i", "n">>,
     <<"x">>,
     <<"a", "u", "t", "h">>,
     <<"a", "u", "t", "h", ".", "t", "s">>,
     <<"@", "C", "o", "n", "f", "i", "g", ".", "t", "s">>,
     <<"@", "s", "o", "n", "g", ".", "m", "p", "3">>,
     <<"@", "d", "a", "t", "a", ".", "7", "z">>,
     <<"s", "r", "c", "/">>,
     <<"a", "l", "l">>,
     <<"m", "o", "d", "u", "l", "e">>}

\* " ".join(words)
RECURSIVE join(_)
join(words) ==
    IF words = <<>> THEN <<>>
    ELSE IF Len(words) = 1 THEN words[1]
    ELSE words[1] \o <<" ">> \o join(Tail(words))

\* the commands: the empty command, the command of three spaces, and the
\* words of up to MaxWords words separated by one space
InitScope ==
    /\ tasks = <<>>
    /\ op = "init"
    /\ level = NoLevel
    /\ conflicts = NoConflicts
    /\ order = <<>>
    /\ groups = NoGroups
    /\ sorted = NoSorted
    /\ next_task = NoNext
    /\ independent = NoIndependent
    /\ \/ \E n \in 0..MaxWords : \E words \in [1..n -> ScopeWords] :
            input = [words |-> words, command |-> join(words)]
       \/ input = [words |-> <<>>, command |-> <<" ", " ", " ">>]
    /\ output = NoOutput
    /\ StoreIdle

\* ConflictAnalyzer.extract_scope(command)
ExtractScope ==
    /\ op = "init"
    /\ output' = [raised |-> "none", scope |-> extract_scope(input.command)]
    /\ op' = "extract_scope"
    /\ UNCHANGED <<tasks, level, conflicts, order, groups, sorted, next_task,
                   independent, input>>
    /\ UNCHANGED store_vars

NextScope == ExtractScope

SpecScope == InitScope /\ [][NextScope]_vars

(***************************************************************************)
(* Claims about extract_scope (SpecScope)                                  *)
(***************************************************************************)
\* C26: in the ScopeInfo returned by extract_scope, estimated_scope agrees
\* with the returned sets: it is file exactly when files is non-empty;
\* otherwise directory exactly when directories is non-empty; otherwise
\* module exactly when modules is non-empty; otherwise project or unknown.
C26_EstimateAgreesWithSets ==
    op = "extract_scope" =>
        LET scope == output.scope
        IN  IF scope.files # {} THEN scope.estimated_scope = "file"
            ELSE IF scope.directories # {} THEN scope.estimated_scope = "directory"
            ELSE IF scope.modules # {} THEN scope.estimated_scope = "module"
            ELSE scope.estimated_scope \in {"project", "unknown"}

\* the file names that the command refers to with @name.ext
References == {Tail(input.words[i]) :
                i \in {k \in 1..Len(input.words) : input.words[k][1] = "@"}}

\* C28: for every command that contains a reference of the form @name.ext,
\* whatever the letter case of the name and whatever characters the
\* extension has, the files returned by extract_scope contain that literal
\* file name and estimated_scope is file.
C28_ReferenceIsExtracted ==
    (op = "extract_scope" /\ References # {}) =>
        /\ References \subseteq output.scope.files
        /\ output.scope.estimated_scope = "file"

(***************************************************************************)
(* Claims about a task with an empty scope (SpecConflict)                  *)
(***************************************************************************)
\* nothing was extracted from the command: no file, directory or module,
\* and the dict is the one of queue_manager.ScopeInfo
HasEmptyScope(x) == x.scope = EmptyScope

\* the ids that the last detect_conflicts call reported
ReportedIds == {conflicts.value[k].task_id : k \in 1..Len(conflicts.value)}

\* C27 as stated: a task whose extracted scope is entirely empty has
\* conflict level NONE with every other task and is never reported by
\* detect_conflicts.
C27_AsClaimed ==
    /\ (op = "analyze_conflict_level"
            /\ (HasEmptyScope(ArgA) \/ HasEmptyScope(ArgB)))
        => level.value = NONE
    /\ (op = "detect_conflicts" /\ HasEmptyScope(tasks[1]))
        => conflicts.value = <<>>
    /\ (op = "detect_conflicts" /\ HasEmptyScope(tasks[2]))
        => tasks[2].id \notin ReportedIds

\* C27, amended: a task whose extracted scope is entirely empty has conflict
\* level NONE with every other task that neither names it in depends_on nor
\* is named in its depends_on, in both argument orders, and detect_conflicts
\* reports nothing for it as the new task and never reports it as an
\* existing task.
C27_EmptyScopeNeverConflicts ==
    /\ (op = "analyze_conflict_level"
            /\ (HasEmptyScope(ArgA) \/ HasEmptyScope(ArgB))
            /\ NoExplicitDependency(ArgA, ArgB))
        => level.value = NONE
    /\ (op = "detect_conflicts" /\ HasEmptyScope(tasks[1]))
        => conflicts.value = <<>>
    /\ (op = "detect_conflicts" /\ HasEmptyScope(tasks[2]))
        => tasks[2].id \notin ReportedIds

\* C27 witness: the level of a task with an empty scope against a task that
\* names a file, a directory and a module, with no dependency between them,
\* is NONE.
C27_Witness ==
    /\ op = "analyze_conflict_level"
    /\ HasEmptyScope(ArgA)
    /\ ArgB.scope.files # {} /\ ArgB.scope.directories # {}
    /\ ArgB.scope.modules # {}
    /\ NoExplicitDependency(ArgA, ArgB)
    /\ level.value = NONE

(***************************************************************************)
(* auto_queue_hook.py: update_session_context (PostToolUse hook) and       *)
(* AutoQueueHook.run (Stop hook)                                           *)
(***************************************************************************)
\* largest number of hook calls in one behaviour
MaxCalls == 4

\* the threshold of AutoQueueHook.__init__ (0.3), in 1/6000
DefaultThreshold == 1800

\* session_context.extract_context_from_tool: the file of the update, <<>>
\* for None.  A missing or empty file_path is <<>>.
extract_context_from_tool(tool_name, params, track_reads) ==
    IF tool_name \in {"Write", "Edit"} /\ params.file_path # <<>>
    THEN params.file_path
    ELSE IF tool_name = "Read" /\ track_reads /\ params.file_path # <<>>
    THEN params.file_path
    ELSE <<>>

\* update_session_context(tool_name, tool_input): the context file afterwards
update_session_context(tool_name, tool_input, file) ==
    IF ~tool_input.valid THEN file
    ELSE
        LET update == extract_context_from_tool(tool_name, tool_input, FALSE)
            loaded == load(file)
            context == IF loaded.found THEN loaded.context ELSE NewContext
        IN  IF update = <<>> THEN file
            ELSE save(add_file(context, update))

\* AutoQueueHook._load_queued_tasks: [] for a task file that is not JSON
_load_queued_tasks(file) ==
    IF ~file.valid THEN <<>> ELSE with_status(file.tasks, QUEUED)

\* lines 242-245 of session_context.py: the (score, task) pairs at or above
\* the threshold, in the order of the task list
RECURSIVE scored_matches(_, _, _)
scored_matches(task_list, context, threshold) ==
    IF task_list = <<>> THEN <<>>
    ELSE
        LET score == match_score(Head(task_list).scope, context)
        IN  (IF score >= threshold
             THEN <<[score |-> score, task |-> Head(task_list)]>> ELSE <<>>)
            \o scored_matches(Tail(task_list), context, threshold)

\* matches.sort(key=lambda x: x[0], reverse=True): a stable sort, pairs of
\* equal score keep their order
RECURSIVE sort_by_score(_)
sort_by_score(matches) ==
    IF matches = <<>> THEN <<>>
    ELSE
        LET first == Head(matches)
            rest == sort_by_score(Tail(matches))
            ahead == {k \in 1..Len(rest) : rest[k].score > first.score}
            n == IF ahead = {} THEN 0
                 ELSE CHOOSE k \in ahead : \A j \in ahead : j <= k
        IN  SubSeq(rest, 1, n) \o <<first>> \o SubSeq(rest, n + 1, Len(rest))

\* ContextMatcher.find_matching_tasks: the ids of the matching tasks
find_matching_tasks(task_list, context, threshold) ==
    LET matches == sort_by_score(scored_matches(task_list, context, threshold))
    IN  [k \in 1..Len(matches) |-> matches[k].task.id]

\* SessionContextManager.cleanup, when AutoQueueHook was built with cleanup
_cleanup_if_enabled(file, cleanup) == IF cleanup THEN AbsentFile ELSE file

\* what run returns, with the context it loaded
run_result(status, matching, loaded, cleanup) ==
    [op |-> "run", raised |-> "none", error |-> "", status |-> status,
     matching_tasks |-> matching, cleanup |-> cleanup,
     loaded |-> loaded.found,
     context |-> IF loaded.found THEN loaded.context ELSE NewContext]

\* a plausible slip: no clean-up on the two early returns
run_cleanup_after_matching(file, task_file, threshold, cleanup) ==
    LET loaded == load(file)
    IN  IF ~loaded.found
        THEN [file |-> file,
              result |-> run_result("no_context", <<>>, loaded, cleanup)]
        ELSE IF ~has_work(loaded.context)
        THEN [file |-> file,
              result |-> run_result("no_work_tracked", <<>>, loaded, cleanup)]
        ELSE
            LET queued == _load_queued_tasks(task_file)
                matching ==
                    find_matching_tasks(queued, loaded.context, threshold)
            IN  IF queued = <<>>
                THEN [file |-> file,
                      result |-> run_result("no_queued_tasks", <<>>, loaded,
                                            cleanup)]
                ELSE [file |-> _cleanup_if_enabled(file, cleanup),
                      result |->
                        run_result(IF matching = <<>> THEN "no_matches"
                                   ELSE "matches_found",
                                   matching, loaded, cleanup)]

\* AutoQueueHook.run: the context file afterwards and the value returned
run(file, task_file, threshold, cleanup) ==
    LET loaded == load(file)
    IN  IF ~loaded.found
        THEN [file |-> file,
              result |-> run_result("no_context", <<>>, loaded, cleanup)]
        ELSE IF ~has_work(loaded.context)
        THEN [file |-> _cleanup_if_enabled(file, cleanup),
              result |-> run_result("no_work_tracked", <<>>, loaded, cleanup)]
        ELSE
            LET queued == _load_queued_tasks(task_file)
                matching ==
                    find_matching_tasks(queued, loaded.context, threshold)
            IN  IF queued = <<>>
                THEN [file |-> _cleanup_if_enabled(file, cleanup),
                      result |-> run_result("no_queued_tasks", <<>>, loaded,
                                            cleanup)]
                ELSE [file |-> _cleanup_if_enabled(file, cleanup),
                      result |->
                        run_result(IF matching = <<>> THEN "no_matches"
                                   ELSE "matches_found",
                                   matching, loaded, cleanup)]

(***************************************************************************)
(* SpecHook: a session that queues tasks, edits files (PostToolUse) and    *)
(* stops (Stop hook), one call at a time.  input.calls is the history of   *)
(* the hook calls: the file each update tracked, and what each run did.    *)
(***************************************************************************)
\* the files the session writes or edits
HookFiles == {SrcAuthTs, LibUserTs}

\* the tools of the PostToolUse hook
ToolNames == {"Write", "Edit", "Read"}

\* json.loads(tool_input): text that is not JSON, or the parameters with
\* their file_path (<<>>: none)
ToolInputs ==
    {[valid |-> FALSE, file_path |-> <<>>]}
        \cup {[valid |-> TRUE, file_path |-> f] : f \in HookFiles \cup {<<>>}}

InitHook ==
    /\ tasks = <<>>
    /\ op = "init"
    /\ level = NoLevel
    /\ conflicts = NoConflicts
    /\ order = <<>>
    /\ groups = NoGroups
    /\ sorted = NoSorted
    /\ next_task = NoNext
    /\ independent = NoIndependent
    /\ input = [calls |-> <<>>]
    /\ output = NoOutput
    /\ tasks_file \in {EmptyTasksFile, CorruptTasksFile}
    /\ history_file = EmptyHistoryFile
    /\ context_file \in {AbsentFile, CorruptFile, save(NewContext)}
    /\ flag_file = AbsentFile
    /\ last_result = NoResult
    /\ clock = 0
    /\ procs = NoProcs
    /\ claude_dir = NoClaudeDir

\* update_session_context(tool_name, tool_input)
UpdateSessionContext ==
    /\ Len(input.calls) < MaxCalls
    /\ \E tool_name \in ToolNames, tool_input \in ToolInputs :
        /\ context_file' =
                update_session_context(tool_name, tool_input, context_file)
        /\ input' = [calls |-> Append(input.calls,
                        [op |-> "update_session_context",
                         tracked |-> IF tool_input.valid
                                     THEN extract_context_from_tool(
                                            tool_name, tool_input, FALSE)
                                     ELSE <<>>])]
    /\ last_result' = [op |-> "update_session_context", raised |-> "none",
                       error |-> ""]
    /\ UNCHANGED <<tasks, op, level, conflicts, order, groups, sorted,
                   next_task, independent, output>>
    /\ UNCHANGED <<tasks_file, history_file, flag_file, clock, procs,
                   claude_dir>>

\* AutoQueueHook(cleanup=cleanup).run()
Run ==
    /\ Len(input.calls) < MaxCalls
    /\ \E cleanup \in BOOLEAN :
        LET done == run(context_file, tasks_file, DefaultThreshold, cleanup)
        IN  /\ context_file' = done.file
            /\ last_result' = done.result
            /\ input' = [calls |-> Append(input.calls,
                            [op |-> "run",
                             consumed |-> cleanup /\ done.result.loaded])]
    /\ UNCHANGED <<tasks, op, level, conflicts, order, groups, sorted,
                   next_task, independent, output>>
    /\ UNCHANGED <<tasks_file, history_file, flag_file, clock, procs,
                   claude_dir>>

NextHook ==
    \/ Add
    \/ Start
    \/ UpdateSessionContext
    \/ Run

SpecHook == InitHook /\ [][NextHook]_vars

(***************************************************************************)
(* Claims about the Stop hook (SpecHook)                                   *)
(***************************************************************************)
\* the position of the last run before call n that loaded a context and
\* cleaned up (0: none)
LastConsumed(n) ==
    LET runs == {k \in 1..(n - 1) :
                    input.calls[k].op = "run" /\ input.calls[k].consumed}
    IN  IF runs = {} THEN 0 ELSE CHOOSE k \in runs : \A j \in runs : j <= k

\* the files tracked by the updates between the last such run and call n
TrackedSince(n) ==
    {input.calls[k].tracked :
        k \in {j \in (LastConsumed(n) + 1)..(n - 1) :
                /\ input.calls[j].op = "update_session_context"
                /\ input.calls[j].tracked # <<>>}}

\* the context that add_file builds from a set of files
RECURSIVE context_of(_)
context_of(files) ==
    IF files = {} THEN NewContext
    ELSE LET f == CHOOSE x \in files : TRUE
         IN  add_file(context_of(files \ {f}), f)

\* C25: once AutoQueueHook.run with cleanup enabled has loaded a session
\* context, the context file no longer exists when run returns, whatever the
\* outcome (no work tracked, no queued tasks, no matches, matches found);
\* so the context that a run loads and matches holds only the files tracked
\* since the last such run, never a file tracked before it.
C25_ContextIsSingleUse ==
    last_result.op = "run" =>
        /\ (last_result.cleanup /\ last_result.loaded)
            => /\ context_file = AbsentFile
               /\ last_result.status \in {"no_work_tracked", "no_queued_tasks",
                                          "no_matches", "matches_found"}
        /\ ~last_result.loaded => last_result.status = "no_context"
        /\ last_result.loaded
            => /\ last_result.context
                    = context_of(TrackedSince(Len(input.calls)))
               /\ last_result.matching_tasks
                    = find_matching_tasks(_load_queued_tasks(tasks_file),
                            context_of(TrackedSince(Len(input.calls))),
                            DefaultThreshold)

\* C25 witness: a run found matches for src/auth.ts and cleaned up, the
\* session then edited lib/user.ts, and the next run loaded a context that
\* holds lib/user.ts only and matched nothing.
C25_Witness ==
    /\ last_result.op = "run"
    /\ last_result.cleanup /\ last_result.loaded
    /\ last_result.status = "no_matches"
    /\ last_result.context.files = {LibUserTs}
    /\ context_file = AbsentFile
    /\ Len(input.calls) = 4
    /\ input.calls[1] = [op |-> "update_session_context", tracked |-> SrcAuthTs]
    /\ input.calls[2] = [op |-> "run", consumed |-> TRUE]
    /\ input.calls[3] = [op |-> "update_session_context", tracked |-> LibUserTs]

(***************************************************************************)
(* install.py: Installer, and the tables of src/version.py.  A JSON object *)
(* is a function from its keys to its values; a hook group is a record of  *)
(* its matcher and the commands of its hooks, in order.                    *)
(***************************************************************************)
\* largest number of backups in ~/.claude/backups
MaxBackups == 1

\* get_current_install_files().values(), settings.json aside: a root file,
\* an agent file and an executable
ManagedFiles == {"CLAUDE.md", "agents/developer.md", "bin/cq"}

\* get_executable_files()
ExecutableFiles == {"bin/cq"}

\* get_runtime_dirs()
RuntimeDirs == {"queue", "backups"}

\* Installer._get_install_map: the destinations, settings.json aside
_get_install_map(preserve_agents) ==
    IF preserve_agents THEN ManagedFiles \ {"agents/developer.md"}
    ELSE ManagedFiles

HookGroup(matcher, hooks) == [matcher |-> matcher, hooks |-> hooks]

\* the commands of the hooks of a list of hook groups
group_commands(hook_groups) ==
    UNION {{hook_groups[i].hooks[j] : j \in 1..Len(hook_groups[i].hooks)} :
            i \in 1..Len(hook_groups)}

\* lines 292-296: the template groups that hold a command which was not in
\* the event's groups before the loop
RECURSIVE new_groups(_, _)
new_groups(event_hooks, existing_commands) ==
    IF event_hooks = <<>> THEN <<>>
    ELSE (IF group_commands(<<Head(event_hooks)>>) \ existing_commands # {}
          THEN <<Head(event_hooks)>> ELSE <<>>)
         \o new_groups(Tail(event_hooks), existing_commands)

\* lines 280-296: the hooks of the merged settings
merge_hooks(hooks, template_hooks) ==
    [event_name \in DOMAIN hooks \cup DOMAIN template_hooks |->
        IF event_name \notin DOMAIN template_hooks THEN hooks[event_name]
        ELSE IF event_name \notin DOMAIN hooks THEN template_hooks[event_name]
        ELSE hooks[event_name]
                \o new_groups(template_hooks[event_name],
                              group_commands(hooks[event_name]))]

\* a plausible slip: the template's value written over the user's
_deep_merge_settings_overwrite(existing, template) ==
    [key \in DOMAIN existing \cup (DOMAIN template \ {"permissions"}) |->
        IF key = "hooks" /\ key \in DOMAIN template
        THEN merge_hooks(IF "hooks" \in DOMAIN existing THEN existing.hooks
                         ELSE <<>>, template.hooks)
        ELSE IF key \in DOMAIN template \ {"permissions"} THEN template[key]
        ELSE existing[key]]

\* Installer._deep_merge_settings(existing, template)
_deep_merge_settings(existing, template) ==
    LET with_hooks == DOMAIN existing
            \cup (IF "hooks" \in DOMAIN template THEN {"hooks"} ELSE {})
        added == (DOMAIN template \ {"hooks", "permissions"}) \ with_hooks
    IN  [key \in with_hooks \cup added |->
            IF key = "hooks" /\ key \in DOMAIN template
            THEN merge_hooks(IF "hooks" \in DOMAIN existing THEN existing.hooks
                             ELSE <<>>, template.hooks)
            ELSE IF key \in added THEN template[key]
            ELSE existing[key]]

\* a settings.json that holds this object
settings_text(data) == [state |-> "valid", data |-> data]

\* Installer.merge_settings: settings.json afterwards
merge_settings(settings, template, dry_run) ==
    IF template.state # "valid" THEN settings
    ELSE IF settings.state = "absent"
    THEN (IF dry_run THEN settings ELSE settings_text(template.data))
    ELSE IF settings.state = "corrupt"
    THEN (IF dry_run THEN settings ELSE settings_text(template.data))
    ELSE IF dry_run THEN settings
    ELSE settings_text(_deep_merge_settings(settings.data, template.data))

\* Installer.check_prerequisites: ~/.claude exists and every source file of
\* the install map, the settings.json template among them, is there
check_prerequisites(dir, template) ==
    dir.state = "present" /\ template.state = "valid"

\* the destinations of the install map that exist
existing_files(dir, preserve_agents) ==
    {f \in _get_install_map(preserve_agents) : dir.files[f] # "absent"}

\* Installer.create_backup: a copy of every destination that exists
create_backup(dir, preserve_agents, dry_run) ==
    IF existing_files(dir, preserve_agents) = {}
            /\ dir.settings.state = "absent"
    THEN dir
    ELSE IF dry_run THEN dir
    ELSE [dir EXCEPT !.backups = Append(@,
            [files |-> [f \in existing_files(dir, preserve_agents) |->
                            dir.files[f]],
             settings |-> dir.settings])]

\* Installer.install_files: every source copied over its destination
install_files(dir, preserve_agents, dry_run) ==
    IF dry_run THEN dir
    ELSE [dir EXCEPT !.files =
            [f \in ManagedFiles |->
                IF f \in _get_install_map(preserve_agents) THEN "installed"
                ELSE dir.files[f]]]

\* Installer.set_executable_permissions
set_executable_permissions(dir, dry_run) ==
    IF dry_run THEN dir
    ELSE [dir EXCEPT !.executable =
            @ \cup {f \in ExecutableFiles : dir.files[f] # "absent"}]

\* a plausible slip: the directories made in a dry run too
create_runtime_dirs_always(dir, dry_run) ==
    [dir EXCEPT !.runtime_dirs = @ \cup RuntimeDirs]

\* Installer.create_runtime_dirs
create_runtime_dirs(dir, dry_run) ==
    IF dry_run THEN dir ELSE [dir EXCEPT !.runtime_dirs = @ \cup RuntimeDirs]

\* Installer.verify_installation
verify_installation(dir, preserve_agents) ==
    /\ \A f \in _get_install_map(preserve_agents) : dir.files[f] # "absent"
    /\ dir.settings.state # "absent"

\* Installer.install: ~/.claude afterwards and the value returned.  No
\* version of VERSION_MIGRATIONS lists a legacy file, so remove_legacy_files
\* removes nothing.
install(dir, template, preserve_agents, dry_run) ==
    IF ~check_prerequisites(dir, template) THEN [dir |-> dir, ok |-> FALSE]
    ELSE
        LET backed == create_backup(dir, preserve_agents, dry_run)
            copied == install_files(backed, preserve_agents, dry_run)
            merged == [copied EXCEPT !.settings =
                            merge_settings(@, template, dry_run)]
            chmod == set_executable_permissions(merged, dry_run)
            made == create_runtime_dirs(chmod, dry_run)
        IN  IF dry_run THEN [dir |-> made, ok |-> TRUE]
            ELSE IF ~verify_installation(made, preserve_agents)
            THEN [dir |-> made, ok |-> TRUE]
            ELSE [dir |-> [made EXCEPT !.version = TRUE], ok |-> TRUE]

\* Installer.uninstall: every path of get_files_to_uninstall() is removed,
\* settings.json being one of them (version.py line 80), then the version
\* file.  None of the paths is in TDD_MANAGED_PATHS.
uninstall(dir, dry_run) ==
    IF dry_run \/ dir.state # "present" THEN dir
    ELSE [dir EXCEPT !.files = [f \in ManagedFiles |-> "absent"],
                     !.executable = {},
                     !.settings = AbsentFile,
                     !.version = FALSE]

(***************************************************************************)
(* SpecInstall: install, merge_settings and uninstall on a ~/.claude that  *)
(* may already hold a settings.json of the user                            *)
(***************************************************************************)
GroupCustom == HookGroup("", <<"custom.sh">>)
GroupStart == HookGroup("", <<"sc-start.sh">>)
GroupStop == HookGroup("", <<"sc-stop.sh">>)
GroupStartExtra == HookGroup("", <<"sc-start.sh", "sc-extra.sh">>)

\* the hooks of the user's settings.json
UserHooks ==
    {[SessionStart |-> <<GroupCustom>>],
     [SessionStart |-> <<GroupStart>>],
     [SessionStart |-> <<HookGroup("Bash", <<"custom.sh", "sc-start.sh">>)>>,
      Stop |-> <<GroupCustom>>]}

\* the other keys of the user's settings.json
UserKeys == {"permissions", "customSetting", "alwaysThinkingEnabled"}

\* the objects the user's settings.json can hold
UserSettings ==
    {[key \in keys |-> "user"] : keys \in SUBSET UserKeys}
        \cup {[key \in keys \cup {"hooks"} |->
                    IF key = "hooks" THEN hooks ELSE "user"] :
                keys \in SUBSET UserKeys, hooks \in UserHooks}

\* src/root/settings.json of the installer
Templates ==
    {[hooks |-> [SessionStart |-> <<GroupStart>>, Stop |-> <<GroupStop>>],
      alwaysThinkingEnabled |-> "template"],
     [hooks |-> [SessionStart |-> <<GroupStartExtra, GroupStart>>,
                 Stop |-> <<GroupStop>>],
      permissions |-> "template",
      alwaysThinkingEnabled |-> "template"],
     [alwaysThinkingEnabled |-> "template", statusLine |-> "template"]}

\* ~/.claude with nothing of the installer in it
ClaudeDir(files, settings) ==
    [state |-> "present", files |-> files, executable |-> {},
     settings |-> settings, version |-> FALSE, runtime_dirs |-> {},
     backups |-> <<>>]

InitInstall ==
    /\ tasks = <<>>
    /\ op = "init"
    /\ level = NoLevel
    /\ conflicts = NoConflicts
    /\ order = <<>>
    /\ groups = NoGroups
    /\ sorted = NoSorted
    /\ next_task = NoNext
    /\ independent = NoIndependent
    /\ output = NoOutput
    /\ tasks_file = EmptyTasksFile
    /\ history_file = EmptyHistoryFile
    /\ context_file = AbsentFile
    /\ flag_file = AbsentFile
    /\ last_result = NoResult
    /\ clock = 0
    /\ procs = NoProcs
    /\ \E template \in {AbsentFile} \cup {settings_text(t) : t \in Templates},
          settings \in {AbsentFile, CorruptFile}
                        \cup {settings_text(u) : u \in UserSettings},
          content \in {"absent", "user"} :
        /\ input = [template |-> template, before_install |-> settings]
        /\ \/ claude_dir = ClaudeDir([f \in ManagedFiles |-> content], settings)
           \/ /\ settings = AbsentFile /\ content = "absent"
              /\ claude_dir = [ClaudeDir([f \in ManagedFiles |-> content],
                                         settings) EXCEPT !.state = "missing"]

\* Installer(preserve_agents=..., dry_run=...).install()
Install ==
    /\ Len(claude_dir.backups) < MaxBackups
    /\ \E preserve_agents \in BOOLEAN, dry_run \in BOOLEAN :
        LET done == install(claude_dir, input.template, preserve_agents,
                            dry_run)
        IN  /\ claude_dir' = done.dir
            /\ last_result' = [op |-> "install", raised |-> "none",
                               error |-> "", ok |-> done.ok,
                               dry_run |-> dry_run]
            /\ input' = IF done.ok /\ ~dry_run
                        THEN [input EXCEPT
                                !.before_install = claude_dir.settings]
                        ELSE input
    /\ UNCHANGED <<tasks, op, level, conflicts, order, groups, sorted,
                   next_task, independent, output>>
    /\ UNCHANGED <<tasks_file, history_file, context_file, flag_file, clock,
                   procs>>

\* Installer(dry_run=...).merge_settings()
MergeSettings ==
    /\ claude_dir.state = "present"
    /\ \E dry_run \in BOOLEAN :
        /\ claude_dir' = [claude_dir EXCEPT !.settings =
                            merge_settings(@, input.template, dry_run)]
        /\ last_result' = [op |-> "merge_settings", raised |-> "none",
                           error |-> "", dry_run |-> dry_run,
                           before |-> claude_dir.settings]
    /\ UNCHANGED <<tasks, op, level, conflicts, order, groups, sorted,
                   next_task, independent, input, output>>
    /\ UNCHANGED <<tasks_file, history_file, context_file, flag_file, clock,
                   procs>>

\* Installer(dry_run=...).uninstall()
Uninstall ==
    /\ \E dry_run \in BOOLEAN :
        /\ claude_dir' = uninstall(claude_dir, dry_run)
        /\ last_result' = [op |-> "uninstall", raised |-> "none",
                           error |-> "", ok |-> TRUE, dry_run |-> dry_run,
                           installed |-> claude_dir.version]
    /\ UNCHANGED <<tasks, op, level, conflicts, order, groups, sorted,
                   next_task, independent, input, output>>
    /\ UNCHANGED <<tasks_file, history_file, context_file, flag_file, clock,
                   procs>>

NextInstall == Install \/ MergeSettings \/ Uninstall

SpecInstall == InitInstall /\ [][NextInstall]_vars

(***************************************************************************)
(* Claims about settings.json (SpecInstall)                                *)
(***************************************************************************)
\* the hooks of a settings object, none when it has no "hooks" key
HooksOf(data) == IF "hooks" \in DOMAIN data THEN data.hooks ELSE <<>>

\* every entry of the first list is in the second one, at its place
IsPrefixOf(first, second) ==
    /\ Len(first) <= Len(second)
    /\ SubSeq(second, 1, Len(first)) = first

\* C29: after install followed by uninstall on a Claude directory whose
\* settings.json already held user permissions and custom keys,
\* settings.json still exists and still holds those user values; only the
\* keys and hooks added by the installer are gone.
C29_UninstallKeepsUserSettings ==
    (/\ last_result.op = "uninstall"
     /\ ~last_result.dry_run
     /\ last_result.installed
     /\ input.before_install.state = "valid"
     /\ {"permissions", "customSetting"}
            \subseteq DOMAIN input.before_install.data)
        => /\ claude_dir.settings.state = "valid"
           /\ claude_dir.settings.data = input.before_install.data

\* C30, the step: merge_settings has just merged the template into a
\* settings.json that held an object.
C30_MergeStep ==
    (/\ last_result'.op = "merge_settings"
     /\ ~last_result'.dry_run
     /\ claude_dir.settings.state = "valid"
     /\ input.template.state = "valid")
        => LET existing == claude_dir.settings.data
               merged == claude_dir'.settings.data
               template == input.template.data
           IN  /\ claude_dir'.settings.state = "valid"
               /\ \A key \in DOMAIN existing \ {"hooks"} :
                    key \in DOMAIN merged /\ merged[key] = existing[key]
               /\ "hooks" \in DOMAIN existing => "hooks" \in DOMAIN merged
               /\ \A event_name \in DOMAIN HooksOf(existing) :
                    /\ event_name \in DOMAIN HooksOf(merged)
                    /\ IsPrefixOf(existing.hooks[event_name],
                                  merged.hooks[event_name])
               /\ \A key \in DOMAIN merged \ DOMAIN existing :
                    key \in DOMAIN template /\ key # "permissions"
               /\ (last_result.op = "merge_settings" /\ ~last_result.dry_run)
                    => HooksOf(merged) = HooksOf(existing)

\* C30: merge_settings keeps every key and value already present in the
\* user's settings.json (permissions and custom keys included) and every
\* existing hook entry; a template key is added only when that key is
\* absent, and running merge_settings again adds no further hook entries.
C30_MergeKeepsUserSettings == [][C30_MergeStep]_vars

\* C30 witness: the user's permissions, custom key and hook are kept, the
\* template's permissions are not applied, its two SessionStart groups and
\* its Stop group are added, and so is alwaysThinkingEnabled.
C30_Witness ==
    /\ last_result.op = "merge_settings"
    /\ ~last_result.dry_run
    /\ last_result.before.state = "valid"
    /\ DOMAIN last_result.before.data = {"permissions", "customSetting", "hooks"}
    /\ last_result.before.data.hooks = [SessionStart |-> <<GroupCustom>>]
    /\ input.template.state = "valid"
    /\ "permissions" \in DOMAIN input.template.data
    /\ claude_dir.settings.state = "valid"
    /\ claude_dir.settings.data.permissions = "user"
    /\ claude_dir.settings.data.customSetting = "user"
    /\ claude_dir.settings.data.alwaysThinkingEnabled = "template"
    /\ claude_dir.settings.data.hooks =
            [SessionStart |-> <<GroupCustom, GroupStartExtra, GroupStart>>,
             Stop |-> <<GroupStop>>]

(***************************************************************************)
(* Claims about a dry run (SpecInstall)                                    *)
(***************************************************************************)
\* C31, the step: an operation of a dry-run Installer has just returned.
C31_DryRunStep ==
    (/\ last_result'.op \in {"install", "uninstall", "merge_settings"}
     /\ last_result'.dry_run)
        => /\ claude_dir' = claude_dir
           /\ (/\ last_result'.op = "install"
               /\ check_prerequisites(claude_dir, input.template))
                    => last_result'.ok

Offers(result) ==
    /\ result.op \in {"get_next", "complete"}
    /\ result.raised = "none"
    /\ result.has_next

\* the id of the task offered: get_next returns it as task, complete as
\* next_task
offered_id(result) ==
    IF result.op = "get_next" THEN result.task_id ELSE result.next_task

\* QueueManager.start(task_id) with the id of the task just offered
StartOffered ==
    /\ Offers(last_result)
    /\ LET done == start(tasks_file.tasks, offered_id(last_result))
       IN  /\ tasks_file' = IF done.save THEN saved(done.tasks) ELSE tasks_file
           /\ last_result' = done.result
    /\ UNCHANGED <<history_file, context_file, flag_file, clock, procs,
                   claude_dir>>
    /\ UNCHANGED analysis_vars

\* QueueManager.complete(task_id, True) with the id of a running task
CompleteStarted ==
    /\ \E i \in 1..Len(tasks_file.tasks) :
        /\ tasks_file.tasks[i].status = RUNNING
        /\ LET done == complete(tasks_file.tasks, history_file,
                                tasks_file.tasks[i].id, TRUE)
           IN  /\ tasks_file' = saved(done.tasks)
               /\ history_file' = done.history
               /\ last_result' = done.result
    /\ UNCHANGED <<context_file, flag_file, clock, procs, claude_dir>>
    /\ UNCHANGED analysis_vars

NextWorker == Add \/ GetNext \/ StartOffered \/ CompleteStarted

\* get_next would return something else than the last call returned: the
\* state in which <<GetNext>>_vars is enabled
GetNextPending ==
    last_result # (IF ~tasks_file.valid THEN load_error("get_next")
                   ELSE get_next(tasks_file.tasks))

\* a task is running: the state in which CompleteStarted is enabled
HasRunning ==
    \E i \in 1..Len(tasks_file.tasks) : tasks_file.tasks[i].status = RUNNING

\* the worker does not stop while it has a step to take: weak fairness of
\* its three steps, that of GetNext and of CompleteStarted written with the
\* state predicates that say when the step is enabled
SpecWorker ==
    /\ Init
    /\ [][NextWorker]_vars
    /\ WF_vars(StartOffered)
    /\ ([]<>~GetNextPending \/ []<><<GetNext>>_vars)
    /\ ([]<>~HasRunning \/ []<><<CompleteStarted>>_vars)

(***************************************************************************)
(* Claims about the worker (SpecWorker)                                    *)
(***************************************************************************)
\* the ids of the tasks recorded as completed
CompletedIds ==
    {history_file.completed[i].id : i \in 1..Len(history_file.completed)}

\* every depends_on of a task in the store names a task that is in the
\* store or has completed
DependenciesInStore ==
    \A i \in 1..Len(tasks_file.tasks) :
        tasks_file.tasks[i].depends_on
            \subseteq task_ids(tasks_file.tasks) \cup CompletedIds

\* C32: if the depends_on relation of the queued tasks is acyclic and names
\* only tasks of the store, a worker that keeps taking the task offered by
\* get_next or complete, starting it and completing it successfully
\* eventually empties the queue.
C32_WorkerEmptiesQueue ==
    []DependenciesInStore => <>[](tasks_file.tasks = <<>>)

\* no task of the store has a dependency
NoDependencies ==
    \A i \in 1..Len(tasks_file.tasks) : tasks_file.tasks[i].depends_on = {}

\* the worker empties a queue of tasks without dependencies
WorkerEmptiesFlatQueue == []NoDependencies => <>[](tasks_file.tasks = <<>>)

(***************************************************************************)
(* Claims about the task that complete offers (Spec)                       *)
(***************************************************************************)
\* the ids of the tasks of the store that are queued or running
UnfinishedIds ==
    {tasks_file.tasks[i].id : i \in
        {k \in 1..Len(tasks_file.tasks) :
            tasks_file.tasks[k].status \in {QUEUED, RUNNING}}}

\* C33: whenever complete returns a next_task, after a success or after a
\* failure, that task is queued and none of the ids in its depends_on is
\* the id of a task that is still queued or running in the store.
C33_NextTaskIsExecutable ==
    (/\ last_result.op = "complete"
     /\ last_result.raised = "none"
     /\ last_result.has_next)
        => \E i \in 1..Len(tasks_file.tasks) :
            /\ tasks_file.tasks[i].id = last_result.next_task
            /\ tasks_file.tasks[i].status = QUEUED
            /\ tasks_file.tasks[i].depends_on \cap UnfinishedIds = {}

(***************************************************************************)
(* Claims about where a task is recorded (Spec)                            *)
(***************************************************************************)
\* the ids held by tasks.json and by the three lists of history.json, one
\* entry for each record
recorded_ids(task_file, history) ==
    [i \in 1..Len(task_file.tasks) |-> task_file.tasks[i].id]
        \o [i \in 1..Len(history.completed) |-> history.completed[i].id]
        \o [i \in 1..Len(history.failed) |-> history.failed[i].id]
        \o [i \in 1..Len(history.cancelled) |-> history.cancelled[i].id]

\* the entries of a list
Entries(list) == {list[i] : i \in 1..Len(list)}

\* C34, the step: an operation has returned.  No id is recorded twice, no
\* id that was recorded is missing, and only an add records a new one.
C34_RecordStep ==
    LET before == recorded_ids(tasks_file, history_file)
        after == recorded_ids(tasks_file', history_file')
    IN  /\ Cardinality(Entries(after)) = Len(after)
        /\ Entries(before) \subseteq Entries(after)
        /\ last_result'.op \notin {"add", "add_with_resolution"}
                => Entries(after) = Entries(before)

\* C34: in single-process use, after each operation returns, every task id
\* that was ever stored appears exactly once across tasks.json and the
\* completed, failed and cancelled lists of history.json, whatever
\* sequence of start, complete, cancel, cancel --all and move is applied.
C34_EveryTaskRecordedOnce == [][C34_RecordStep]_vars

\* C34 witness: one task has completed or failed, the other one was
\* cancelled, and a second cancel --all has found nothing to cancel.
C34_Witness ==
    /\ last_result.op = "cancel"
    /\ last_result.cancel_all
    /\ last_result.cancelled = <<>>
    /\ tasks_file.tasks = <<>>
    /\ Len(history_file.cancelled) = 1
    /\ Len(history_file.completed) + Len(history_file.failed) = 1

(***************************************************************************)
(* task_analyzer.py: TaskAnalyzer on a list of task strings.  What         *)
(* _extract_action_and_target and _extract_scope return for the strings    *)
(* used here is written out in TaskFacts.                                  *)
(***************************************************************************)
\* largest number of task strings handed to TaskAnalyzer
MaxStrings == 3

\* for each task string: the action and target of
\* _extract_action_and_target ("" for None) and the files of _extract_scope
TaskFacts ==
    [task \in {"implement auth.py", "test auth.py", "retest auth.py",
               "fix auth.py", "implement user.py"} |->
        [action |-> IF task \in {"implement auth.py", "implement user.py"}
                    THEN "implement"
                    ELSE IF task = "fix auth.py" THEN "" ELSE "test",
         target |-> IF task = "implement user.py" THEN "user" ELSE "auth",
         files |-> IF task = "implement user.py" THEN {"user.py"}
                   ELSE {"auth.py"}]]

\* TaskAnalyzer.DEPENDENCY_RULES.get(action, []), the entries that are
\* action types
DEPENDENCY_RULES(action) ==
    IF action = "test" THEN {"implement", "build"}
    ELSE IF action = "deploy" THEN {"build", "test"}
    ELSE {}

\* TaskAnalyzer.analyze_dependencies(tasks).dependencies[task], as a set
TaskAnalyzer_analyze_dependencies(task_list, task) ==
    {other_task \in Entries(task_list) :
        /\ other_task # task
        /\ TaskFacts[task].action # ""
        /\ TaskFacts[other_task].action # ""
        /\ TaskFacts[task].target = TaskFacts[other_task].target
        /\ TaskFacts[other_task].action
                \in DEPENDENCY_RULES(TaskFacts[task].action)}

\* TaskAnalyzer.analyze_conflicts(tasks).conflicts, as the set of pairs of
\* hard_conflict_pairs (lines 395-398)
TaskAnalyzer_analyze_conflicts(task_list) ==
    {pair \in Entries(task_list) \X Entries(task_list) :
        /\ \E i, j \in 1..Len(task_list) :
            i # j /\ {task_list[i], task_list[j]} = {pair[1], pair[2]}
        /\ TaskFacts[pair[1]].files \cap TaskFacts[pair[2]].files # {}}

\* lines 415-424: the ready tasks that go into the group, in order
RECURSIVE TaskAnalyzer_fill_group(_, _, _)
TaskAnalyzer_fill_group(ready, hard_conflict_pairs, group) ==
    IF ready = <<>> THEN group
    ELSE TaskAnalyzer_fill_group(Tail(ready), hard_conflict_pairs,
            IF \E k \in 1..Len(group) :
                    <<Head(ready), group[k]>> \in hard_conflict_pairs
            THEN group ELSE Append(group, Head(ready)))

\* lines 400-438: the rounds of the while loop.  set_order lists the tasks
\* in the order in which the set remaining yields them.
RECURSIVE TaskAnalyzer_group_loop(_, _, _, _, _, _)
TaskAnalyzer_group_loop(task_list, set_order, remaining, completed, group_list, circular) ==
    IF remaining = {} THEN [groups |-> group_list,
                            has_circular_warning |-> circular]
    ELSE
        LET satisfied == {task \in remaining :
                TaskAnalyzer_analyze_dependencies(task_list, task)
                    \subseteq completed}
            ready == IF satisfied = {}
                     THEN <<Head(Filter(set_order, remaining))>>
                     ELSE Filter(set_order, satisfied)
            picked == TaskAnalyzer_fill_group(ready,
                            TaskAnalyzer_analyze_conflicts(task_list), <<>>)
            \* lines 426-434: a ready task that was not picked leaves
            \* remaining; it joins the group unless no group exists yet or
            \* an earlier group holds it
            earlier == UNION {Entries(group_list[g]) : g \in 1..Len(group_list)}
            left_over == Filter(ready, Entries(ready) \ Entries(picked))
            group == IF group_list = <<>> THEN picked
                     ELSE picked \o Filter(left_over, Entries(left_over) \ earlier)
        IN  TaskAnalyzer_group_loop(task_list, set_order,
                remaining \ Entries(ready), completed \cup Entries(group),
                Append(group_list, group), circular \/ satisfied = {})

\* TaskAnalyzer.create_parallel_groups(tasks): groups and
\* has_circular_warning
TaskAnalyzer_create_parallel_groups(task_list, set_order) ==
    TaskAnalyzer_group_loop(task_list, set_order, Entries(task_list), {},
                            <<>>, FALSE)

(***************************************************************************)
(* SpecAnalyzer: TaskAnalyzer.create_parallel_groups on a list of          *)
(* different task strings                                                  *)
(***************************************************************************)
InitAnalyzer ==
    /\ \E n \in 0..MaxStrings :
        \E list \in [1..n -> DOMAIN TaskFacts] :
            /\ \A i, j \in 1..n : i # j => list[i] # list[j]
            /\ tasks = list
    /\ op = "init"
    /\ level = NoLevel
    /\ conflicts = NoConflicts
    /\ order = <<>>
    /\ groups = NoGroups
    /\ sorted = NoSorted
    /\ next_task = NoNext
    /\ independent = NoIndependent
    /\ input = NoInput
    /\ output = NoOutput
    /\ StoreIdle

\* One call of TaskAnalyzer.create_parallel_groups(tasks), with the
\* iteration order of the set remaining drawn among its permutations
TaskAnalyzerGroups ==
    /\ op = "init"
    /\ \E set_order \in Permutations_of(Entries(tasks)) :
        /\ order' = set_order
        /\ output' = TaskAnalyzer_create_parallel_groups(tasks, set_order)
    /\ op' = "TaskAnalyzer.create_parallel_groups"
    /\ UNCHANGED <<tasks, level, conflicts, groups, sorted, next_task,
                   independent, input>>
    /\ UNCHANGED store_vars

SpecAnalyzer == InitAnalyzer /\ [][TaskAnalyzerGroups]_vars

(***************************************************************************)
(* Claims about TaskAnalyzer (SpecAnalyzer)                                *)
(***************************************************************************)
\* C35: TaskAnalyzer.create_parallel_groups returns groups that partition
\* the input tasks (every task is in exactly one group) and never puts two
\* tasks with a common file in the same group, whether or not both tasks
\* are ready in the first round.
C35_GroupsPartitionWithoutHardConflict ==
    op = "TaskAnalyzer.create_parallel_groups"
        => /\ \A task \in Entries(tasks) :
                Cardinality({g \in 1..Len(output.groups) :
                    \E k \in 1..Len(output.groups[g]) :
                        output.groups[g][k] = task}) = 1
           /\ \A g \in 1..Len(output.groups) :
                \A i, j \in 1..Len(output.groups[g]) :
                    i # j => TaskFacts[output.groups[g][i]].files
                                \cap TaskFacts[output.groups[g][j]].files = {}

(***************************************************************************)
(* auto_continue.py: the hooks around the continuation flag.  In SpecFlag  *)
(* clock is the time of datetime.now(), in units of 150 seconds.           *)
(***************************************************************************)
\* the latest time of a behaviour
MaxTime == 4

\* AutoContinuationManager.ttl_seconds: 300 seconds, two units
ttl_seconds == 2

\* handle_user_prompt_event(flag_file, clear_after): the flag file
\* afterwards and whether a reminder is returned (for which task)
handle_user_prompt_event(file, now, clear_after) ==
    LET got == get_continuation(file,
                    file.state = "valid" /\ now - file.created_at > ttl_seconds)
    IN  IF ~got.result.found
        THEN [file |-> got.file, reminder |-> FALSE, task_id |-> ""]
        ELSE [file |-> IF clear_after THEN AbsentFile ELSE got.file,
              reminder |-> TRUE, task_id |-> got.result.task_id]

\* what SpecFlag remembers: the reminders that calls with clear_after have
\* returned since the flag was last set
NoReminders == [op |-> "flag", delivered |-> 0]

InitFlag ==
    /\ tasks = <<>>
    /\ op = "init"
    /\ level = NoLevel
    /\ conflicts = NoConflicts
    /\ order = <<>>
    /\ groups = NoGroups
    /\ sorted = NoSorted
    /\ next_task = NoNext
    /\ independent = NoIndependent
    /\ input = NoReminders
    /\ output = NoOutput
    /\ tasks_file = EmptyTasksFile
    /\ history_file = EmptyHistoryFile
    /\ context_file = AbsentFile
    /\ flag_file \in {AbsentFile, CorruptFile}
    /\ last_result = NoResult
    /\ clock = 0
    /\ procs = NoProcs
    /\ claude_dir = NoClaudeDir

\* time passes
Tick ==
    /\ clock < MaxTime
    /\ clock' = clock + 1
    /\ UNCHANGED <<tasks_file, history_file, context_file, flag_file,
                   last_result, procs, claude_dir>>
    /\ UNCHANGED analysis_vars

\* handle_stop_event(completion_result) with a next_task to execute: the
\* flag is set
HandleStopEvent ==
    /\ \E task_id \in {TaskIds[1], TaskIds[2], TaskIds[3]} :
        flag_file' = set_continuation(task_id)
    /\ last_result' = [op |-> "handle_stop_event", raised |-> "none",
                       error |-> ""]
    /\ input' = NoReminders
    /\ UNCHANGED <<tasks, op, level, conflicts, order, groups, sorted,
                   next_task, independent, output>>
    /\ UNCHANGED <<tasks_file, history_file, context_file, clock, procs,
                   claude_dir>>

\* handle_user_prompt_event(flag_file, clear_after)
HandleUserPromptEvent ==
    /\ \E clear_after \in BOOLEAN :
        LET done == handle_user_prompt_event(flag_file, clock, clear_after)
        IN  /\ flag_file' = done.file
            /\ last_result' = [op |-> "handle_user_prompt_event",
                               raised |-> "none", error |-> "",
                               reminder |-> done.reminder,
                               task_id |-> done.task_id,
                               clear_after |-> clear_after,
                               expired |-> /\ flag_file.state = "valid"
                                           /\ clock - flag_file.created_at
                                                > ttl_seconds]
            /\ input' = IF done.reminder /\ clear_after
                        THEN [input EXCEPT !.delivered = @ + 1]
                        ELSE input
    /\ UNCHANGED <<tasks, op, level, conflicts, order, groups, sorted,
                   next_task, independent, output>>
    /\ UNCHANGED <<tasks_file, history_file, context_file, clock, procs,
                   claude_dir>>

NextFlag == Tick \/ HandleStopEvent \/ HandleUserPromptEvent

SpecFlag == InitFlag /\ [][NextFlag]_vars

(***************************************************************************)
(* Claims about the continuation flag (SpecFlag)                           *)
(***************************************************************************)
\* C36, the step: handle_user_prompt_event has just returned (no time has
\* passed, and the last call is this one).
C36_PromptStep ==
    last_result'.op = "handle_user_prompt_event" /\ clock' = clock
        => /\ input'.delivered <= 1
           /\ last_result'.reminder
                => /\ flag_file.state = "valid"
                   /\ clock - flag_file.created_at <= ttl_seconds
                   /\ last_result'.task_id = flag_file.task_id
           /\ (flag_file.state = "valid"
                    /\ clock - flag_file.created_at > ttl_seconds)
                => ~last_result'.reminder /\ flag_file' = AbsentFile

\* C36: a continuation flag set once is delivered as a reminder by at most
\* one handle_user_prompt_event call with clear_after until a new flag is
\* set, and is never delivered once its age exceeds ttl_seconds: an expired
\* flag is deleted and produces no reminder.
C36_FlagDeliveredOnceBeforeExpiry == [][C36_PromptStep]_vars

\* C36 witness: the flag was delivered once by a call with clear_after,
\* and a later call has found nothing to deliver.
C36_Witness ==
    /\ last_result.op = "handle_user_prompt_event"
    /\ ~last_result.reminder
    /\ ~last_result.expired
    /\ last_result.clear_after
    /\ flag_file = AbsentFile
    /\ input.delivered = 1

(***************************************************************************)
(* SpecStop: the Stop hook next to a QueueManager whose tasks are added,   *)
(* started and completed                                                   *)
(***************************************************************************)
\* stop_hook_main(flag_file, tasks_file): the flag file afterwards.  A
\* tasks.json that is not JSON leaves the flag as it is (line 233).
stop_hook_main(flag, task_file) ==
    IF ~task_file.valid THEN flag
    ELSE LET queued_tasks == with_status(task_file.tasks, QUEUED)
         IN  IF queued_tasks = <<>> THEN flag
             ELSE set_continuation(queued_tasks[1].id)

\* one run of the Stop hook
StopHookMain ==
    /\ flag_file' = stop_hook_main(flag_file, tasks_file)
    /\ last_result' = [op |-> "stop_hook_main", raised |-> "none",
                       error |-> "",
                       flag_set |-> /\ tasks_file.valid
                                    /\ with_status(tasks_file.tasks, QUEUED)
                                            # <<>>]
    /\ UNCHANGED <<tasks_file, history_file, context_file, clock, procs,
                   claude_dir>>
    /\ UNCHANGED analysis_vars

NextStop == Add \/ Start \/ Complete \/ Move \/ StopHookMain

SpecStop == Init /\ [][NextStop]_vars

(***************************************************************************)
(* Claims about the Stop hook (SpecStop)                                   *)
(***************************************************************************)
\* C37: stop_hook_main sets the continuation flag only when get_next would
\* return a task, and the task the flag names is that task; when every
\* queued task is blocked by unfinished dependencies no flag is set.
C37_FlagNamesNextTask ==
    (last_result.op = "stop_hook_main" /\ last_result.flag_set)
        => /\ get_next(tasks_file.tasks).has_next
           /\ flag_file.task_id = get_next(tasks_file.tasks).task_id


(***************************************************************************)
(* SpecAddOnly: a store that tasks enter through QueueManager.add only     *)
(***************************************************************************)
NextAddOnly ==
    \/ Add
    \/ Start
    \/ Complete
    \/ Cancel
    \/ Move

SpecAddOnly == Init /\ [][NextAddOnly]_vars

\* C38: when tasks enter the store only through add, after any sequence of
\* add, start, complete, cancel and move no two tasks of the active store
\* share a file or a module, or have directories of which one is a prefix
\* of the other.
C38_ActiveStoreWithoutOverlap ==
    tasks_file.valid =>
        \A i \in 1..Len(tasks_file.tasks), j \in 1..Len(tasks_file.tasks) :
            i # j => ~ScopesOverlap(tasks_file.tasks[i].scope,
                                    tasks_file.tasks[j].scope)

\* two tasks are in the store, the first of them running, after an add
\* that was accepted beside it
C38_Witness ==
    /\ tasks_file.valid
    /\ Len(tasks_file.tasks) = 2
    /\ tasks_file.tasks[1].status = RUNNING
    /\ tasks_file.tasks[2].status = QUEUED
    /\ last_result.op = "add"
    /\ last_result.raised = "none"
    /\ last_result.message = "TASK_ADDED"

\* an add is refused beside a running task whose directory is inside the
\* new task's directory
C38_RefusedBesideRunning ==
    /\ tasks_file.valid
    /\ Len(tasks_file.tasks) = 1
    /\ tasks_file.tasks[1].status = RUNNING
    /\ tasks_file.tasks[1].scope.directories = {DirSrcAuth}
    /\ last_result.op = "add"
    /\ last_result.raised = "none"
    /\ last_result.message = "CONFLICT_DETECTED"


(***************************************************************************)
(* SpecPriority: add, add_with_resolution and move called with priority    *)
(* and position strings of any kind, then list and get_next                *)
(***************************************************************************)
\* the priority strings given to add and add_with_resolution, and the
\* position strings given to move
PriorityArguments == {"normal", "High", "urgent"}
ResolutionPriorities == {"normal", "soon"}
PositionArguments == {"first", "last", "high", "urgent"}

\* QueueManager.add(command, priority)
AddPriority ==
    /\ clock < MaxAdds
    /\ \E command \in Commands, priority \in PriorityArguments :
        LET done == add(create(command, priority, {}), tasks_file.tasks)
        IN  /\ tasks_file' = IF done.save THEN saved(done.tasks) ELSE tasks_file
            /\ last_result' = done.result
    /\ clock' = clock + 1
    /\ UNCHANGED <<history_file, context_file, flag_file, procs, claude_dir>>
    /\ UNCHANGED analysis_vars

\* QueueManager.add_with_resolution(command, resolution, conflict_task_ids,
\* priority=...): the keyword arguments go to Task.create as they are
AddWithResolutionPriority ==
    /\ clock < MaxAdds
    /\ \E command \in Commands, resolution \in {"parallel", "depend"},
          conflict_task_ids \in DependsOnChoices,
          priority \in ResolutionPriorities :
        LET depends_on == IF resolution = "depend" THEN conflict_task_ids ELSE {}
            task == create(command, priority, depends_on)
        IN  /\ tasks_file' = saved(Append(tasks_file.tasks, task))
            /\ last_result' =
                    [op |-> "add_with_resolution", raised |-> "none",
                     error |-> "", task_id |-> task.id,
                     message |-> "TASK_ADDED",
                     resolution_applied |-> resolution]
    /\ clock' = clock + 1
    /\ UNCHANGED <<history_file, context_file, flag_file, procs, claude_dir>>
    /\ UNCHANGED analysis_vars

\* QueueManager.move(task_id, position)
MovePosition ==
    /\ \E task_id \in KnownIds, position \in PositionArguments :
        LET done == move(tasks_file.tasks, task_id, position)
        IN  /\ tasks_file' = IF done.save THEN saved(done.tasks) ELSE tasks_file
            /\ last_result' = done.result
    /\ UNCHANGED <<history_file, context_file, flag_file, clock, procs,
                   claude_dir>>
    /\ UNCHANGED analysis_vars

NextPriority ==
    \/ AddPriority
    \/ AddWithResolutionPriority
    \/ MovePosition
    \/ List
    \/ GetNext

SpecPriority == Init /\ [][NextPriority]_vars

\* C40: after any sequence of add, add_with_resolution and move with
\* strings of any kind, every task of the store has a priority among
\* critical, high, normal and low, and list and get_next do not fail on
\* the lookup of a priority.
C40_PriorityIsValid ==
    /\ \A i \in 1..Len(tasks_file.tasks) :
            tasks_file.tasks[i].priority \in PriorityNames
    /\ last_result.op \in {"list", "get_next"} => last_result.raised # "KeyError"

\* get_next fails on the lookup of the priority of a stored task
C40_LookupFails ==
    /\ last_result.op = "get_next"
    /\ last_result.raised = "KeyError"
    /\ \E i \in 1..Len(tasks_file.tasks) :
            priority_lookup_raises(tasks_file.tasks[i].priority)

\* a priority in mixed case is stored as given and found by the lookup
C40_MixedCaseStored ==
    /\ last_result.op = "get_next"
    /\ last_result.raised = "none"
    /\ last_result.has_next
    /\ \E i \in 1..Len(tasks_file.tasks) :
            /\ tasks_file.tasks[i].id = last_result.task_id
            /\ tasks_file.tasks[i].priority = "High"

====
